---------------------------- MODULE Spec2Model ----------------------------
(***************************************************************************)
(* Model of the retrieval-and-grounding core of culturalAI:                *)
(*   - the article schema validator and repair   (lib/core/schema.ts)      *)
(*   - the LLM service wrapper                   (lib/services/llm.ts)     *)
(*   - the markdown renderer                     (lib/core/render-markdown) *)
(*   - the intent classifier                     (lib/rag/query-builder.ts) *)
(*   - the hybrid retriever                      (lib/rag/retriever.ts)    *)
(*   - the humanities pipeline                   (lib/pipeline/...)        *)
(*   - the chat route                            (app/api/chat/route.ts)   *)
(*                                                                         *)
(* Text is a sequence of symbols.  A symbol is a run of characters that    *)
(* the code never looks inside: a punctuation mark, a white-space          *)
(* character, a code fence, or a word.  String operations of the code      *)
(* (trim, slice, regular expressions, JSON.parse, JSON.stringify) are      *)
(* computed on these sequences, one symbol counting as one character.      *)
(***************************************************************************)
EXTENDS Integers, Sequences, FiniteSets, TLC

\* ------------------------------------------------------------------------
\* Alphabet
\* ------------------------------------------------------------------------
\* FENCE is the run of three backquotes that opens or closes a code block
FENCE == "<fence>"
JSONTAG == "json"
SP == " "
NL == "\n"
Q == "\""
EscQ == "\\\""
EscNL == "\\n"
WhiteSpace == {SP, NL}

Min(a, b) == IF a < b THEN a ELSE b
Max(a, b) == IF a > b THEN a ELSE b

\* ------------------------------------------------------------------------
\* JavaScript values that JSON can denote, plus undefined
\* ------------------------------------------------------------------------
Undefined == [t |-> "undefined"]
JNull == [t |-> "null"]
JBool(b) == [t |-> "bool", b |-> b]
JNum(n) == [t |-> "num", n |-> n]
JStr(s) == [t |-> "str", s |-> s]
JArr(a) == [t |-> "arr", a |-> a]
JObj(o) == [t |-> "obj", o |-> o]

IsStr(v) == v.t = "str"
IsArr(v) == v.t = "arr"
IsObj(v) == v.t = "obj"

\* typeof v is object (true of null, arrays and objects)
TypeofObject(v) == v.t \in {"null", "arr", "obj"}

\* JavaScript truthiness
Truthy(v) ==
    CASE v.t = "undefined" -> FALSE
      [] v.t = "null" -> FALSE
      [] v.t = "bool" -> v.b
      [] v.t = "num" -> v.n # 0
      [] v.t = "str" -> v.s # <<>>
      [] OTHER -> TRUE

\* obj[k] = v on an object's member list (an existing key keeps its place)
RECURSIVE PutAt(_, _, _, _)
PutAt(o, k, v, i) ==
    IF i > Len(o) THEN Append(o, [k |-> k, v |-> v])
    ELSE IF o[i].k = k THEN [o EXCEPT ![i] = [k |-> k, v |-> v]]
    ELSE PutAt(o, k, v, i + 1)

Put(o, k, v) == PutAt(o, k, v, 1)

\* v.k property read: undefined when absent or when v has no such property.
\* Reading a property of null or undefined is a TypeError; callers test
\* ThrowsOnRead first.
Prop(v, k) ==
    IF IsObj(v) /\ \E i \in 1..Len(v.o) : v.o[i].k = <<k>>
    THEN v.o[CHOOSE i \in 1..Len(v.o) : v.o[i].k = <<k>>].v
    ELSE Undefined

ThrowsOnRead(v) == v.t \in {"null", "undefined"}

Obj1(k1, v1) == JObj(<<[k |-> <<k1>>, v |-> v1]>>)
Obj3(k1, v1, k2, v2, k3, v3) ==
    JObj(<<[k |-> <<k1>>, v |-> v1], [k |-> <<k2>>, v |-> v2], [k |-> <<k3>>, v |-> v3]>>)

\* ------------------------------------------------------------------------
\* String helpers
\* ------------------------------------------------------------------------
\* first index >= i that holds no white space (Len(s) + 1 when there is none)
SkipWs(s, i) ==
    IF \E j \in i..Len(s) : s[j] \notin WhiteSpace
    THEN CHOOSE j \in i..Len(s) :
            s[j] \notin WhiteSpace /\ \A k \in i..(j - 1) : s[k] \in WhiteSpace
    ELSE Max(i, Len(s) + 1)

\* least e in lo..hi such that s[e..hi-1] is white space
BackWs(s, hi, lo) ==
    IF hi <= lo THEN hi
    ELSE CHOOSE e \in lo..hi :
            /\ \A k \in e..(hi - 1) : s[k] \in WhiteSpace
            /\ e > lo => s[e - 1] \notin WhiteSpace

Slice(s, from, to) == IF from > to THEN <<>> ELSE SubSeq(s, from, to)

\* String.prototype.trim
Trim(s) ==
    LET a == SkipWs(s, 1)
        e == BackWs(s, Len(s) + 1, a)
    IN Slice(s, a, e - 1)

\* first index >= i holding symbol c, 0 when there is none
IndexOf(s, c, i) ==
    IF \E j \in i..Len(s) : s[j] = c
    THEN CHOOSE j \in i..Len(s) : s[j] = c /\ \A k \in i..(j - 1) : s[k] # c
    ELSE 0

Spaces(n) == [i \in 1..n |-> SP]

\* ------------------------------------------------------------------------
\* JSON.parse
\* ------------------------------------------------------------------------
ParseFail == [ok |-> FALSE, v |-> Undefined, p |-> 0]
ParseOk(v, p) == [ok |-> TRUE, v |-> v, p |-> p]

Unescape(c) == IF c = EscQ THEN Q ELSE IF c = EscNL THEN NL ELSE c

\* the string literal whose opening quote is at i - 1
ParseString(s, i) ==
    LET e == IndexOf(s, Q, i) IN
    IF e = 0 \/ \E k \in i..(e - 1) : s[k] = NL THEN ParseFail
    ELSE ParseOk(JStr([k \in 1..(e - i) |-> Unescape(s[i + k - 1])]), e + 1)

RECURSIVE ParseValue(_, _)
RECURSIVE ParseElements(_, _, _)
RECURSIVE ParseMembers(_, _, _)

ParseValue(s, i0) ==
    LET i == SkipWs(s, i0) IN
    IF i > Len(s) THEN ParseFail
    ELSE CASE s[i] = "{" ->
                LET j == SkipWs(s, i + 1) IN
                IF j <= Len(s) /\ s[j] = "}" THEN ParseOk(JObj(<<>>), j + 1)
                ELSE ParseMembers(s, i + 1, <<>>)
           [] s[i] = "[" ->
                LET j == SkipWs(s, i + 1) IN
                IF j <= Len(s) /\ s[j] = "]" THEN ParseOk(JArr(<<>>), j + 1)
                ELSE ParseElements(s, i + 1, <<>>)
           [] s[i] = Q -> ParseString(s, i + 1)
           [] s[i] = "null" -> ParseOk(JNull, i + 1)
           [] s[i] = "true" -> ParseOk(JBool(TRUE), i + 1)
           [] s[i] = "false" -> ParseOk(JBool(FALSE), i + 1)
           [] s[i] = "0" -> ParseOk(JNum(0), i + 1)
           [] s[i] = "1" -> ParseOk(JNum(1), i + 1)
           [] s[i] = "2" -> ParseOk(JNum(2), i + 1)
           [] OTHER -> ParseFail

ParseElements(s, i, acc) ==
    LET r == ParseValue(s, i) IN
    IF ~r.ok THEN ParseFail
    ELSE LET j == SkipWs(s, r.p) IN
         IF j > Len(s) THEN ParseFail
         ELSE IF s[j] = "," THEN ParseElements(s, j + 1, Append(acc, r.v))
         ELSE IF s[j] = "]" THEN ParseOk(JArr(Append(acc, r.v)), j + 1)
         ELSE ParseFail

ParseMembers(s, i, acc) ==
    LET j == SkipWs(s, i) IN
    IF j > Len(s) \/ s[j] # Q THEN ParseFail
    ELSE LET key == ParseString(s, j + 1) IN
         IF ~key.ok THEN ParseFail
         ELSE LET c == SkipWs(s, key.p) IN
              IF c > Len(s) \/ s[c] # ":" THEN ParseFail
              ELSE LET r == ParseValue(s, c + 1) IN
                   IF ~r.ok THEN ParseFail
                   ELSE LET m == SkipWs(s, r.p) IN
                        IF m > Len(s) THEN ParseFail
                        ELSE IF s[m] = ","
                             THEN ParseMembers(s, m + 1, Put(acc, key.v.s, r.v))
                        ELSE IF s[m] = "}"
                             THEN ParseOk(JObj(Put(acc, key.v.s, r.v)), m + 1)
                        ELSE ParseFail

\* JSON.parse(s): the value, or a thrown SyntaxError
JSONparse(s) ==
    LET r == ParseValue(s, 1) IN
    IF r.ok /\ SkipWs(s, r.p) > Len(s)
    THEN [threw |-> FALSE, v |-> r.v]
    ELSE [threw |-> TRUE, v |-> Undefined]

\* ------------------------------------------------------------------------
\* JSON.stringify(value, null, 2)
\* ------------------------------------------------------------------------
Escape(s) ==
    [i \in 1..Len(s) |-> IF s[i] = Q THEN EscQ ELSE IF s[i] = NL THEN EscNL ELSE s[i]]

RECURSIVE JSONstringify(_, _)
RECURSIVE StringifyElements(_, _, _)
RECURSIVE StringifyMembers(_, _, _)

JSONstringify(v, level) ==
    CASE v.t = "null" -> <<"null">>
      [] v.t = "bool" -> IF v.b THEN <<"true">> ELSE <<"false">>
      [] v.t = "num" -> IF v.n = 0 THEN <<"0">> ELSE IF v.n = 1 THEN <<"1">> ELSE <<"2">>
      [] v.t = "str" -> <<Q>> \o Escape(v.s) \o <<Q>>
      [] v.t = "arr" ->
            IF v.a = <<>> THEN <<"[", "]">>
            ELSE <<"[", NL>> \o StringifyElements(v.a, 1, level + 1)
                 \o <<NL>> \o Spaces(2 * level) \o <<"]">>
      [] v.t = "obj" ->
            IF v.o = <<>> THEN <<"{", "}">>
            ELSE <<"{", NL>> \o StringifyMembers(v.o, 1, level + 1)
                 \o <<NL>> \o Spaces(2 * level) \o <<"}">>
      [] OTHER -> <<"null">>

StringifyElements(a, i, level) ==
    Spaces(2 * level) \o JSONstringify(a[i], level)
    \o (IF i = Len(a) THEN <<>> ELSE <<",", NL>> \o StringifyElements(a, i + 1, level))

StringifyMembers(o, i, level) ==
    Spaces(2 * level) \o <<Q>> \o Escape(o[i].k) \o <<Q, ":", SP>>
    \o JSONstringify(o[i].v, level)
    \o (IF i = Len(o) THEN <<>> ELSE <<",", NL>> \o StringifyMembers(o, i + 1, level))

\* ------------------------------------------------------------------------
\* lib/core/schema.ts
\* ------------------------------------------------------------------------
\* slice(0, 200) of the fallback intro
FallbackIntroLen == 200

Section(title, paragraph, bullets) ==
    Obj3("title", title, "paragraph", paragraph, "bullets", bullets)

Article(intro, sections, conclusion) ==
    Obj3("intro", Obj1("text", intro), "sections", sections,
         "conclusion", Obj1("text", conclusion))

RECURSIVE ValidateSections(_, _)
ValidateSections(sections, i) ==
    IF i > Len(sections) THEN "ok"
    ELSE LET section == sections[i] IN
         IF ThrowsOnRead(section) THEN "TypeError"
         ELSE IF ~IsStr(Prop(section, "title")) THEN "Error"
         ELSE IF ~IsStr(Prop(section, "paragraph")) THEN "Error"
         ELSE IF ~IsArr(Prop(section, "bullets")) THEN "Error"
         ELSE IF \E j \in 1..Len(Prop(section, "bullets").a) :
                    ~IsStr(Prop(section, "bullets").a[j]) THEN "Error"
         ELSE ValidateSections(sections, i + 1)

\* "ok" when obj is an ArticleOutput, else the kind of error thrown
validateArticleSchema(obj) ==
    IF ~Truthy(obj) \/ ~TypeofObject(obj) THEN "Error"
    ELSE IF ~Truthy(Prop(obj, "intro")) \/ ~TypeofObject(Prop(obj, "intro")) THEN "Error"
    ELSE IF ~IsStr(Prop(Prop(obj, "intro"), "text")) THEN "Error"
    ELSE IF ~IsArr(Prop(obj, "sections")) THEN "Error"
    ELSE IF ValidateSections(Prop(obj, "sections").a, 1) # "ok"
         THEN ValidateSections(Prop(obj, "sections").a, 1)
    ELSE IF ~Truthy(Prop(obj, "conclusion")) \/ ~TypeofObject(Prop(obj, "conclusion"))
         THEN "Error"
    ELSE IF ~IsStr(Prop(Prop(obj, "conclusion"), "text")) THEN "Error"
    ELSE "ok"

NoMatch == [matched |-> FALSE, group |-> <<>>]

\* the position after the opening fence, its optional json tag and the
\* white space that follows, for a match starting at the first fence
AfterOpenFence(s, i) ==
    SkipWs(s, IF i + 1 <= Len(s) /\ s[i + 1] = JSONTAG THEN i + 2 ELSE i + 1)

\* jsonStr.match(/<fence>(?:json)?\s*([\s\S]*?)\s*<fence>/)
codeBlockMatch(s) ==
    LET i == IndexOf(s, FENCE, 1) IN
    IF i = 0 THEN NoMatch
    ELSE LET a == AfterOpenFence(s, i)
             f == IndexOf(s, FENCE, a)
         IN IF f = 0 THEN NoMatch
            ELSE [matched |-> TRUE, group |-> Slice(s, a, BackWs(s, f, a) - 1)]

Returned(v) == [threw |-> FALSE, v |-> v]
Thrown == [threw |-> TRUE, v |-> Undefined]

\* a fallback built from the trimmed, unfenced text instead of the raw text
FallbackArticleOfJsonStr(text) ==
    LET t == Trim(IF codeBlockMatch(Trim(text)).matched
                  THEN codeBlockMatch(Trim(text)).group ELSE Trim(text))
    IN Article(JStr(Slice(t, 1, Min(FallbackIntroLen, Len(t)))),
               JArr(<<Section(JStr(<<"Response">>), JStr(t), JArr(<<>>))>>),
               JStr(<<>>))

\* the catch branch of parseArticleResponse
FallbackArticle(text) ==
    Article(JStr(Slice(text, 1, Min(FallbackIntroLen, Len(text)))),
            JArr(<<Section(JStr(<<"Response">>), JStr(text), JArr(<<>>))>>),
            JStr(<<>>))

\* the text handed to JSON.parse
jsonStrOf(text) ==
    LET trimmed == Trim(text)
        m == codeBlockMatch(trimmed)
    IN IF m.matched THEN Trim(m.group) ELSE trimmed

\* parseArticleResponse whose catch lets a TypeError of the validation escape
parseArticleResponseLeaky(text) ==
    LET parsed == JSONparse(jsonStrOf(text)) IN
    IF parsed.threw THEN Returned(FallbackArticle(text))
    ELSE IF validateArticleSchema(parsed.v) = "TypeError" THEN Thrown
    ELSE IF validateArticleSchema(parsed.v) # "ok" THEN Returned(FallbackArticle(text))
    ELSE Returned(parsed.v)

parseArticleResponse(text) ==
    LET parsed == JSONparse(jsonStrOf(text)) IN
    IF parsed.threw \/ validateArticleSchema(parsed.v) # "ok"
    THEN Returned(FallbackArticle(text))
    ELSE Returned(parsed.v)

\* ------------------------------------------------------------------------
\* lib/services/llm.ts
\* ------------------------------------------------------------------------
\* What the external generation call (generateText) does: it throws, or it
\* answers with some text.
GenThrows == [threw |-> TRUE, text |-> <<>>]
GenText(t) == [threw |-> FALSE, text |-> t]

\* text.match(/<fence>(?:json)?\s*\n?([\s\S]*?)\n?<fence>/)
jsonMatch(s) ==
    LET i == IndexOf(s, FENCE, 1) IN
    IF i = 0 THEN NoMatch
    ELSE LET a == AfterOpenFence(s, i)
             f == IndexOf(s, FENCE, a)
         IN IF f = 0 THEN NoMatch
            ELSE [matched |-> TRUE,
                  group |-> Slice(s, a, (IF f > a /\ s[f - 1] = NL THEN f - 1 ELSE f) - 1)]

callLLM(responseFormat, gen) ==
    IF gen.threw THEN Thrown
    ELSE IF responseFormat = "json"
    THEN LET text == IF jsonMatch(gen.text).matched
                     THEN jsonMatch(gen.text).group ELSE gen.text
         IN IF JSONparse(text).threw THEN Thrown ELSE Returned(text)
    ELSE Returned(gen.text)

parseLLMJson(response) ==
    IF ~JSONparse(response).threw THEN Returned(JSONparse(response).v)
    ELSE IF jsonMatch(response).matched /\ ~JSONparse(jsonMatch(response).group).threw
    THEN Returned(JSONparse(jsonMatch(response).group).v)
    ELSE Thrown

\* ------------------------------------------------------------------------
\* lib/core/render-markdown.ts
\* ------------------------------------------------------------------------
RECURSIVE RenderBullets(_)
RenderBullets(bullets) ==
    IF bullets = <<>> THEN <<>>
    ELSE <<"- ">> \o Head(bullets).s \o <<NL>> \o RenderBullets(Tail(bullets))

RenderSection(section) ==
    (IF Truthy(Prop(section, "title"))
     THEN <<"## ">> \o Prop(section, "title").s \o <<NL, NL>> ELSE <<>>)
    \o (IF Truthy(Prop(section, "paragraph"))
        THEN Prop(section, "paragraph").s \o <<NL, NL>> ELSE <<>>)
    \o (IF Truthy(Prop(section, "bullets")) /\ Len(Prop(section, "bullets").a) > 0
        THEN RenderBullets(Prop(section, "bullets").a) \o <<NL>> ELSE <<>>)

RECURSIVE RenderSections(_)
RenderSections(sections) ==
    IF sections = <<>> THEN <<>>
    ELSE RenderSection(Head(sections)) \o RenderSections(Tail(sections))

renderMarkdown(data) ==
    Trim((IF Truthy(Prop(Prop(data, "intro"), "text"))
          THEN Prop(Prop(data, "intro"), "text").s \o <<NL, NL>> ELSE <<>>)
         \o (IF Truthy(Prop(data, "sections")) /\ IsArr(Prop(data, "sections"))
             THEN RenderSections(Prop(data, "sections").a) ELSE <<>>)
         \o (IF Truthy(Prop(Prop(data, "conclusion"), "text"))
             THEN <<"## ", "Kesimpulan", NL, NL>>
                  \o Prop(Prop(data, "conclusion"), "text").s \o <<NL>>
             ELSE <<>>))

\* ------------------------------------------------------------------------
\* Words.  A question is the list of its space-separated words
\* (question.split(' ')); the tables below give, for the words of the
\* model, their length and the substrings the code looks for.
\* ------------------------------------------------------------------------
\* word -> number of characters (String.length)
TokLen(w) ==
    CASE w = "" -> 0
      [] w = "Why" -> 3
      [] w = "does" -> 4
      [] w = "'Sudah" -> 6
      [] w = "menikah?'" -> 9
      [] w = "sound" -> 5
      [] w = "polite" -> 6
      [] w = "in" -> 2
      [] w = "Indonesian" -> 10
      [] w = "but" -> 3
      [] w = "intrusive" -> 9
      [] w = "English?" -> 8
      [] w = "symbolism" -> 9
      [] w = "Japanese" -> 8
      [] w = "novel" -> 5
      [] w = "politeness" -> 10
      [] w = "indirectness" -> 12
      [] w = "silence" -> 7
      [] w = "General" -> 7
      [] w = "Indonesia" -> 9
      [] w = "English" -> 7
      [] w = "Atlantis" -> 8
      [] w = "Apa" -> 3
      [] w = "beda" -> 4
      [] w = "berbeda" -> 7
      [] w = "different" -> 9
      [] w = "Compare" -> 7
      [] OTHER -> 0

\* pairs <<word, keyword>> with word.toLowerCase().includes(keyword)
KeywordIn ==
    { <<"polite", "polite">>,
      <<"Indonesian", "indonesia">>,
      <<"Indonesian", "indonesian">>,
      <<"English?", "english">>,
      <<"Japanese", "japan">>,
      <<"novel", "novel">>,
      <<"beda", "beda">>,
      <<"berbeda", "beda">>,
      <<"different", "differ">>,
      <<"Compare", "compare">> }

Vocabulary ==
    {"Why", "does", "'Sudah", "menikah?'", "sound", "polite", "in", "Indonesian", "but", "intrusive", "English?", "symbolism", "Japanese", "novel", "politeness", "indirectness", "silence", "General", "Indonesia", "English", "Atlantis"}

HUMANITIES_KNOWLEDGE_BASE == <<
    [ id |-> "prag-politeness-indo-01",
      discipline |-> <<"linguistics", "cultural_studies">>, subfield |-> <<"pragmatics", "cultural_norms">>,
      culture |-> <<"Indonesia">>, context |-> <<"academic", "formal">>,
      era |-> "contemporary", stance |-> "descriptive", confidence |-> "high", source_type |-> "journal",
      source |-> "Journal of Pragmatics",
      related_concepts |-> <<"politeness", "indirectness", "face-threatening acts", "hedging">>,
      textWords |-> {"polite", "in", "Indonesian", "politeness", "indirectness", "Indonesia"}, relatedWords |-> {"polite", "in", "politeness", "indirectness"}, cultureWords |-> {"in", "Indonesia"} ],
    [ id |-> "prag-silence-asian-01",
      discipline |-> <<"linguistics", "cultural_studies">>, subfield |-> <<"pragmatics", "cultural_norms">>,
      culture |-> <<"Japan", "China", "Korea", "East Asia">>, context |-> <<"general", "formal">>,
      era |-> "contemporary", stance |-> "descriptive", confidence |-> "high", source_type |-> "ethnography",
      source |-> "Cross-Cultural Pragmatics",
      related_concepts |-> <<"silence", "pragmatics", "respect", "harmony", "wa">>,
      textWords |-> {"in", "Japanese", "silence"}, relatedWords |-> {"silence"}, cultureWords |-> {"in"} ],
    [ id |-> "prag-speech-acts-01",
      discipline |-> <<"linguistics">>, subfield |-> <<"pragmatics", "discourse_analysis">>,
      culture |-> <<"General", "Collectivist">>, context |-> <<"general">>,
      era |-> "contemporary", stance |-> "descriptive", confidence |-> "high", source_type |-> "book",
      source |-> "Austin, J.L. - How to Do Things with Words",
      related_concepts |-> <<"speech acts", "illocutionary force", "indirect speech acts">>,
      textWords |-> {"in"}, relatedWords |-> {"in"}, cultureWords |-> {"General"} ],
    [ id |-> "prag-fta-indonesian-01",
      discipline |-> <<"linguistics", "cultural_studies">>, subfield |-> <<"pragmatics", "cultural_norms">>,
      culture |-> <<"Indonesia", "Java">>, context |-> <<"social", "formal">>,
      era |-> "contemporary", stance |-> "descriptive", confidence |-> "high", source_type |-> "journal",
      source |-> "Indonesian Pragmatics Studies",
      related_concepts |-> <<"face-threatening acts", "sungkan", "politeness", "refusal strategies">>,
      textWords |-> {"polite", "in", "Indonesian", "politeness", "Indonesia"}, relatedWords |-> {"polite", "in", "politeness"}, cultureWords |-> {"in", "Indonesia"} ],
    [ id |-> "socio-register-indo-01",
      discipline |-> <<"linguistics">>, subfield |-> <<"sociolinguistics", "pragmatics">>,
      culture |-> <<"Indonesia", "Java">>, context |-> <<"general">>,
      era |-> "contemporary", stance |-> "descriptive", confidence |-> "high", source_type |-> "journal",
      source |-> "Sociolinguistics in Southeast Asia",
      related_concepts |-> <<"register", "pronouns", "formality", "social hierarchy">>,
      textWords |-> {"polite", "in", "Indonesian", "but", "politeness", "Indonesia"}, relatedWords |-> {}, cultureWords |-> {"in", "Indonesia"} ],
    [ id |-> "socio-codeswitching-01",
      discipline |-> <<"linguistics", "cultural_studies">>, subfield |-> <<"sociolinguistics", "identity_studies">>,
      culture |-> <<"Postcolonial", "Multilingual">>, context |-> <<"general">>,
      era |-> "contemporary", stance |-> "descriptive", confidence |-> "high", source_type |-> "book",
      source |-> "Code-Switching in Postcolonial Contexts",
      related_concepts |-> <<"code-switching", "identity", "multilingualism", "postcolonial">>,
      textWords |-> {"in", "English"}, relatedWords |-> {"in"}, cultureWords |-> {"in"} ],
    [ id |-> "socio-power-language-01",
      discipline |-> <<"linguistics", "cultural_studies">>, subfield |-> <<"sociolinguistics", "power_relations">>,
      culture |-> <<"General", "Hierarchical">>, context |-> <<"general", "institutional">>,
      era |-> "contemporary", stance |-> "critical", confidence |-> "high", source_type |-> "book",
      source |-> "Language and Power - Fairclough",
      related_concepts |-> <<"power", "honorifics", "hierarchy", "discourse">>,
      textWords |-> {"polite", "in", "politeness"}, relatedWords |-> {}, cultureWords |-> {"General"} ],
    [ id |-> "cult-collectivism-01",
      discipline |-> <<"cultural_studies">>, subfield |-> <<"cultural_norms", "ethnography">>,
      culture |-> <<"East Asia", "Southeast Asia", "Collectivist">>, context |-> <<"general">>,
      era |-> "contemporary", stance |-> "descriptive", confidence |-> "high", source_type |-> "ethnography",
      source |-> "Hofstede Cultural Dimensions Research",
      related_concepts |-> <<"collectivism", "harmony", "group identity", "indirect communication">>,
      textWords |-> {"in"}, relatedWords |-> {"in"}, cultureWords |-> {} ],
    [ id |-> "cult-personal-questions-indo-01",
      discipline |-> <<"cultural_studies", "linguistics">>, subfield |-> <<"cultural_norms", "pragmatics">>,
      culture |-> <<"Indonesia", "Asia">>, context |-> <<"social", "casual">>,
      era |-> "contemporary", stance |-> "descriptive", confidence |-> "high", source_type |-> "ethnography",
      source |-> "Indonesian Social Norms Studies",
      related_concepts |-> <<"personal questions", "social bonding", "privacy", "communal identity">>,
      textWords |-> {"in", "Indonesian", "Indonesia"}, relatedWords |-> {"in"}, cultureWords |-> {"in", "Indonesia"} ],
    [ id |-> "cult-diaspora-identity-01",
      discipline |-> <<"cultural_studies", "linguistics">>, subfield |-> <<"diaspora_studies", "identity_studies", "sociolinguistics">>,
      culture |-> <<"Diaspora", "Immigrant">>, context |-> <<"general">>,
      era |-> "contemporary", stance |-> "descriptive", confidence |-> "medium", source_type |-> "journal",
      source |-> "Journal of Multilingual and Multicultural Development",
      related_concepts |-> <<"diaspora", "hybrid identity", "heritage language", "belonging">>,
      textWords |-> {"in"}, relatedWords |-> {"in"}, cultureWords |-> {} ],
    [ id |-> "cult-postcolonial-language-01",
      discipline |-> <<"cultural_studies", "linguistics">>, subfield |-> <<"postcolonial_studies", "sociolinguistics">>,
      culture |-> <<"Postcolonial", "Indonesia", "India", "Africa">>, context |-> <<"general", "institutional">>,
      era |-> "contemporary", stance |-> "critical", confidence |-> "high", source_type |-> "book",
      source |-> "Postcolonial Linguistics",
      related_concepts |-> <<"postcolonialism", "language prestige", "linguistic imperialism">>,
      textWords |-> {"in"}, relatedWords |-> {"in"}, cultureWords |-> {"in", "Indonesia"} ],
    [ id |-> "lit-symbolism-cultural-01",
      discipline |-> <<"literature", "cultural_studies">>, subfield |-> <<"symbolism", "comparative_literature">>,
      culture |-> <<"Buddhist", "Japanese", "Asian">>, context |-> <<"literary">>,
      era |-> "contemporary", stance |-> "descriptive", confidence |-> "high", source_type |-> "analysis",
      source |-> "Comparative Literature Studies",
      related_concepts |-> <<"symbolism", "cultural symbols", "translation", "interpretation">>,
      textWords |-> {"in", "Japanese"}, relatedWords |-> {"in", "symbolism"}, cultureWords |-> {"Japanese"} ],
    [ id |-> "lit-postcolonial-writing-01",
      discipline |-> <<"literature", "cultural_studies">>, subfield |-> <<"postcolonial_literature", "postcolonial_studies">>,
      culture |-> <<"Postcolonial", "Nigeria", "Indonesia">>, context |-> <<"literary">>,
      era |-> "contemporary", stance |-> "critical", confidence |-> "high", source_type |-> "book",
      source |-> "The Empire Writes Back",
      related_concepts |-> <<"postcolonial literature", "linguistic resistance", "hybridity">>,
      textWords |-> {"in"}, relatedWords |-> {"in"}, cultureWords |-> {"in", "Indonesia"} ],
    [ id |-> "disc-turn-taking-01",
      discipline |-> <<"linguistics">>, subfield |-> <<"discourse_analysis", "pragmatics">>,
      culture |-> <<"General", "Cross-cultural">>, context |-> <<"general", "conversation">>,
      era |-> "contemporary", stance |-> "descriptive", confidence |-> "high", source_type |-> "journal",
      source |-> "Conversation Analysis",
      related_concepts |-> <<"turn-taking", "overlap", "pause", "conversation">>,
      textWords |-> {"in"}, relatedWords |-> {"in"}, cultureWords |-> {"General"} ],
    [ id |-> "disc-politeness-western-01",
      discipline |-> <<"linguistics">>, subfield |-> <<"pragmatics", "discourse_analysis">>,
      culture |-> <<"Western", "General">>, context |-> <<"academic">>,
      era |-> "contemporary", stance |-> "critical", confidence |-> "high", source_type |-> "journal",
      source |-> "Critique of Politeness Theory",
      related_concepts |-> <<"politeness", "face", "negative face", "cultural bias">>,
      textWords |-> {"polite", "in", "politeness"}, relatedWords |-> {"polite", "politeness"}, cultureWords |-> {"General"} ] >>

\* ------------------------------------------------------------------------
\* lib/rag/query-builder.ts
\* ------------------------------------------------------------------------
StrOf(w) == JStr(IF w = "" THEN <<>> ELSE <<w>>)
StrArr(ws) == JArr([i \in 1..Len(ws) |-> StrOf(ws[i])])

MkIntent(cultures, primary, secondary, subfields, concepts, queryType, comparison, confidence) ==
    JObj(<< [k |-> <<"cultures_involved">>, v |-> StrArr(cultures)],
            [k |-> <<"potential_conflicts">>, v |-> JArr(<<>>)],
            [k |-> <<"primary_discipline">>, v |-> StrOf(primary)],
            [k |-> <<"secondary_disciplines">>, v |-> StrArr(secondary)],
            [k |-> <<"subfields">>, v |-> StrArr(subfields)],
            [k |-> <<"social_domain">>, v |-> StrOf("general communication")],
            [k |-> <<"key_concepts">>, v |-> StrArr(concepts)],
            [k |-> <<"query_type">>, v |-> StrOf(queryType)],
            [k |-> <<"interpretive_frame">>, v |-> StrOf("General cultural-linguistic analysis")],
            [k |-> <<"requires_comparison">>, v |-> JBool(comparison)],
            [k |-> <<"requires_historical_context">>, v |-> JBool(FALSE)],
            [k |-> <<"analysis_confidence">>, v |-> StrOf(confidence)] >>)

\* questionLower.includes(kw)
QIncludes(question, kw) == \E i \in 1..Len(question) : <<question[i], kw>> \in KeywordIn

FallbackDiscipline(question) ==
    IF QIncludes(question, "sastra") \/ QIncludes(question, "novel")
       \/ QIncludes(question, "puisi") \/ QIncludes(question, "literary")
    THEN [primary |-> "literature", subfields |-> <<"literary_criticism">>]
    ELSE IF QIncludes(question, "budaya") \/ QIncludes(question, "culture")
            \/ QIncludes(question, "tradisi") \/ QIncludes(question, "norma")
    THEN [primary |-> "cultural_studies", subfields |-> <<"cultural_norms">>]
    ELSE IF QIncludes(question, "sopan") \/ QIncludes(question, "polite")
            \/ QIncludes(question, "formal") \/ QIncludes(question, "bahasa")
    THEN [primary |-> "linguistics", subfields |-> <<"pragmatics", "sociolinguistics">>]
    ELSE [primary |-> "linguistics", subfields |-> <<>>]

\* a culture detection that detects nothing
FallbackCulturesGeneral(question) == <<"General">>

FallbackCultures(question) ==
    LET detected ==
          (IF QIncludes(question, "indonesia") \/ QIncludes(question, "indonesian")
           THEN <<"Indonesia">> ELSE <<>>)
          \o (IF QIncludes(question, "jawa") \/ QIncludes(question, "javanese")
              THEN <<"Java">> ELSE <<>>)
          \o (IF QIncludes(question, "english") \/ QIncludes(question, "inggris")
              THEN <<"English">> ELSE <<>>)
          \o (IF QIncludes(question, "china") \/ QIncludes(question, "chinese")
                 \/ QIncludes(question, "mandarin")
              THEN <<"Chinese">> ELSE <<>>)
          \o (IF QIncludes(question, "jepang") \/ QIncludes(question, "japan")
              THEN <<"Japanese">> ELSE <<>>)
          \o (IF QIncludes(question, "barat") \/ QIncludes(question, "western")
              THEN <<"Western">> ELSE <<>>)
    IN IF Len(detected) = 0 THEN <<"General">> ELSE detected

LongerThan(ws, n) == SelectSeq(ws, LAMBDA w : TokLen(w) > n)

\* a fallback intent that looks at the number of cultures only
createFallbackIntentCulturesOnly(question) ==
    LET d == FallbackDiscipline(question)
        cultures == FallbackCultures(question)
        requiresComparison == Len(cultures) > 1
        long == LongerThan(question, 4)
    IN MkIntent(cultures, d.primary, <<>>,
                IF Len(d.subfields) > 0 THEN d.subfields ELSE <<"pragmatics">>,
                Slice(long, 1, Min(5, Len(long))),
                IF requiresComparison THEN "comparative" ELSE "cultural_explanation",
                requiresComparison, "low")

createFallbackIntent(question) ==
    LET d == FallbackDiscipline(question)
        cultures == FallbackCultures(question)
        requiresComparison ==
            \/ Len(cultures) > 1
            \/ QIncludes(question, "beda")
            \/ QIncludes(question, "differ")
            \/ QIncludes(question, "compare")
        long == LongerThan(question, 4)
    IN MkIntent(cultures, d.primary, <<>>,
                IF Len(d.subfields) > 0 THEN d.subfields ELSE <<"pragmatics">>,
                Slice(long, 1, Min(5, Len(long))),
                IF requiresComparison THEN "comparative" ELSE "cultural_explanation",
                requiresComparison, "low")

\* analyzeHumanitiesIntent without the check of the required fields
analyzeHumanitiesIntentUnvalidated(question, gen) ==
    LET response == callLLM("json", gen) IN
    IF response.threw THEN Returned(createFallbackIntent(question))
    ELSE LET parsed == parseLLMJson(response.v) IN
         IF parsed.threw THEN Returned(createFallbackIntent(question))
         ELSE IF ThrowsOnRead(parsed.v) THEN Returned(createFallbackIntent(question))
         ELSE Returned(parsed.v)

analyzeHumanitiesIntent(question, gen) ==
    LET response == callLLM("json", gen) IN
    IF response.threw THEN Returned(createFallbackIntent(question))
    ELSE LET parsed == parseLLMJson(response.v) IN
         IF parsed.threw THEN Returned(createFallbackIntent(question))
         ELSE IF ThrowsOnRead(parsed.v) THEN Returned(createFallbackIntent(question))
         ELSE IF ~Truthy(Prop(parsed.v, "primary_discipline"))
                 \/ ~Truthy(Prop(parsed.v, "cultures_involved"))
         THEN Returned(createFallbackIntent(question))
         ELSE Returned(parsed.v)

\* ------------------------------------------------------------------------
\* lib/rag/retriever.ts
\* ------------------------------------------------------------------------
DEFAULT_OPTIONS ==
    [maxResults |-> 5, minConfidence |-> "low",
     preferHighConfidence |-> TRUE, includeRelatedDisciplines |-> TRUE]

\* weights that penalise a concept match
SCORING_WEIGHTS_ConceptPenalty ==
    [disciplineMatch |-> 30, subfieldMatch |-> 25, cultureMatch |-> 20,
     contextMatch |-> 15, conceptMatch |-> -10, queryWordMatch |-> 3,
     confidenceBonus |-> [high |-> 15, medium |-> 10, low |-> 5],
     sourceTypeBonus |-> [journal |-> 13, book |-> 12, ethnography |-> 14,
                          analysis |-> 10, few_shot |-> 8]]

\* weights in tenths; a score is counted in thousandths
SCORING_WEIGHTS ==
    [disciplineMatch |-> 30, subfieldMatch |-> 25, cultureMatch |-> 20,
     contextMatch |-> 15, conceptMatch |-> 10, queryWordMatch |-> 3,
     confidenceBonus |-> [high |-> 15, medium |-> 10, low |-> 5],
     sourceTypeBonus |-> [journal |-> 13, book |-> 12, ethnography |-> 14,
                          analysis |-> 10, few_shot |-> 8]]

\* { ...DEFAULT_OPTIONS, ...options }
MergeOptions(options) ==
    [k \in DOMAIN DEFAULT_OPTIONS \cup DOMAIN options |->
        IF k \in DOMAIN options THEN options[k] ELSE DEFAULT_OPTIONS[k]]

\* values a for-of loop can iterate
Iterable(v) == v.t \in {"arr", "str"}
Elems(v) ==
    IF IsArr(v) THEN v.a
    ELSE IF IsStr(v) THEN [i \in 1..Len(v.s) |-> JStr(<<v.s[i]>>)]
    ELSE <<>>

\* v || []
OrEmpty(v) == IF Truthy(v) THEN v ELSE JArr(<<>>)

\* labels.includes(v)
Includes(labels, v) == IsStr(v) /\ \E i \in 1..Len(labels) : v.s = <<labels[i]>>

\* labels.some(l => l.toLowerCase().includes(v.toLowerCase())), where words
\* is the set of words of the vocabulary that some label contains
SomeIncludes(labels, words, v) ==
    IF v.s = <<>> THEN Len(labels) > 0
    ELSE Len(v.s) = 1 /\ v.s[1] \in words

\* how many elements of seq are in the set hits
CountIn(seq, hits) == Cardinality({i \in 1..Len(seq) : seq[i] \in hits})

\* steps 1 to 6 of calculateRelevanceScore: the additive terms, in tenths
AdditiveScore(doc, query, intent, opts) ==
    LET W == SCORING_WEIGHTS
        secondary == Elems(OrEmpty(Prop(intent, "secondary_disciplines")))
        subfields == Elems(OrEmpty(Prop(intent, "subfields")))
        cultures == Elems(Prop(intent, "cultures_involved"))
        concepts == Elems(Prop(intent, "key_concepts"))
        queryWords == LongerThan(query, 3)
    IN
    (IF Includes(doc.discipline, Prop(intent, "primary_discipline"))
     THEN W.disciplineMatch ELSE 0)
    + (IF opts.includeRelatedDisciplines
       THEN Cardinality({i \in 1..Len(secondary) : Includes(doc.discipline, secondary[i])})
            * (W.disciplineMatch \div 2)
       ELSE 0)
    + Cardinality({i \in 1..Len(subfields) : Includes(doc.subfield, subfields[i])})
      * W.subfieldMatch
    + Cardinality({i \in 1..Len(cultures) :
                     SomeIncludes(doc.culture, doc.cultureWords, cultures[i])})
      * W.cultureMatch
    + (IF "contexts" \in DOMAIN opts
       THEN CountIn(opts.contexts, {doc.context[i] : i \in 1..Len(doc.context)})
            * W.contextMatch
       ELSE 0)
    + Cardinality({i \in 1..Len(concepts) :
                     SomeIncludes(<<doc.id>>, doc.textWords, concepts[i])})
      * W.conceptMatch
    + Cardinality({i \in 1..Len(concepts) :
                     SomeIncludes(doc.related_concepts, doc.relatedWords, concepts[i])})
      * (W.conceptMatch \div 2)
    + CountIn(queryWords, doc.textWords) * W.queryWordMatch

\* a score that adds the two bonuses instead of multiplying by them
calculateRelevanceScoreAdding(doc, query, intent, opts) ==
    AdditiveScore(doc, query, intent, opts) * 100
    + (IF opts.preferHighConfidence THEN SCORING_WEIGHTS.confidenceBonus[doc.confidence] ELSE 10)
    + SCORING_WEIGHTS.sourceTypeBonus[doc.source_type]

\* the score in thousandths: the additive terms, times the confidence bonus
\* when preferHighConfidence, times the source type bonus
calculateRelevanceScore(doc, query, intent, opts) ==
    AdditiveScore(doc, query, intent, opts)
    * (IF opts.preferHighConfidence THEN SCORING_WEIGHTS.confidenceBonus[doc.confidence] ELSE 10)
    * SCORING_WEIGHTS.sourceTypeBonus[doc.source_type]

\* a filter without the floor on the score
KeepAnyScore(x, opts) ==
    /\ ~(opts.minConfidence = "high" /\ x.doc.confidence # "high")
    /\ ~(opts.minConfidence = "medium" /\ x.doc.confidence = "low")

\* the filter of step 2
KeepScored(x, opts) ==
    /\ x.score > 0
    /\ ~(opts.minConfidence = "high" /\ x.doc.confidence # "high")
    /\ ~(opts.minConfidence = "medium" /\ x.doc.confidence = "low")

\* x placed after every element whose score is not higher (ascending)
InsertByScoreAscending(sorted, x) ==
    LET n == Cardinality({i \in 1..Len(sorted) : sorted[i].score <= x.score})
    IN Slice(sorted, 1, n) \o <<x>> \o Slice(sorted, n + 1, Len(sorted))

\* x placed after every element whose score is not lower (a stable sort)
InsertByScore(sorted, x) ==
    LET n == Cardinality({i \in 1..Len(sorted) : sorted[i].score >= x.score})
    IN Slice(sorted, 1, n) \o <<x>> \o Slice(sorted, n + 1, Len(sorted))

RECURSIVE SortFrom(_, _, _)
SortFrom(seq, i, acc) ==
    IF i > Len(seq) THEN acc ELSE SortFrom(seq, i + 1, InsertByScore(acc, seq[i]))

\* filtered.sort((a, b) => b.score - a.score)
SortByScore(seq) == SortFrom(seq, 1, <<>>)

\* a cap of the whole result instead of half of it
CeilWhole(n) == n

\* Math.ceil(n / 2)
CeilHalf(n) == (n + 1) \div 2

EmptyCounts == [x \in {} |-> 0]
CountOf(counts, key) == IF key \in DOMAIN counts THEN counts[key] ELSE 0
Increment(counts, key) ==
    [x \in DOMAIN counts \cup {key} |-> IF x = key THEN CountOf(counts, key) + 1 ELSE counts[x]]

PrimaryDisc(doc) == IF Len(doc.discipline) > 0 THEN doc.discipline[1] ELSE "undefined"
PrimaryCulture(doc) == IF Len(doc.culture) > 0 THEN doc.culture[1] ELSE "undefined"

RECURSIVE CappedPass(_, _, _, _, _)
\* the first loop of diversifyResults, from item i on
CappedPass(scored, i, st, comparison, maxResults) ==
    IF i > Len(scored) \/ Len(st.result) >= maxResults THEN st
    ELSE LET item == scored[i]
             primaryDisc == PrimaryDisc(item.doc)
             primaryCulture == PrimaryCulture(item.doc)
         IN IF CountOf(st.disciplineCounts, primaryDisc) >= CeilHalf(maxResults)
            THEN CappedPass(scored, i + 1, st, comparison, maxResults)
            ELSE IF comparison
                    /\ CountOf(st.cultureCounts, primaryCulture) >= CeilHalf(maxResults)
            THEN CappedPass(scored, i + 1, st, comparison, maxResults)
            ELSE CappedPass(scored, i + 1,
                    [result |-> Append(st.result, item),
                     disciplineCounts |-> Increment(st.disciplineCounts, primaryDisc),
                     cultureCounts |-> IF comparison
                                       THEN Increment(st.cultureCounts, primaryCulture)
                                       ELSE st.cultureCounts],
                    comparison, maxResults)

\* a backfill that takes every remaining candidate
BackfillUnbounded(scored, i, result, maxResults) ==
    result \o SelectSeq(scored, LAMBDA x : \A j \in 1..Len(result) : result[j] # x)

RECURSIVE BackfillRepeating(_, _, _, _)
\* a backfill that does not look whether the result includes the item
BackfillRepeating(scored, i, result, maxResults) ==
    IF i > Len(scored) \/ Len(result) >= maxResults THEN result
    ELSE BackfillRepeating(scored, i + 1, Append(result, scored[i]), maxResults)

RECURSIVE Backfill(_, _, _, _)
\* the second loop of diversifyResults, from item i on
Backfill(scored, i, result, maxResults) ==
    IF i > Len(scored) \/ Len(result) >= maxResults THEN result
    ELSE IF \E j \in 1..Len(result) : result[j] = scored[i]
    THEN Backfill(scored, i + 1, result, maxResults)
    ELSE Backfill(scored, i + 1, Append(result, scored[i]), maxResults)

\* a capped pass that starts at the second candidate
AdmittedFromSecond(scored, intent, maxResults) ==
    CappedPass(scored, 2,
               [result |-> <<>>, disciplineCounts |-> EmptyCounts, cultureCounts |-> EmptyCounts],
               Truthy(Prop(intent, "requires_comparison")), maxResults).result

Admitted(scored, intent, maxResults) ==
    CappedPass(scored, 1,
               [result |-> <<>>, disciplineCounts |-> EmptyCounts, cultureCounts |-> EmptyCounts],
               Truthy(Prop(intent, "requires_comparison")), maxResults).result

diversifyResults(scored, intent, maxResults) ==
    Backfill(scored, 1, Admitted(scored, intent, maxResults), maxResults)

\* the candidates of one call: scored, filtered and sorted
Candidates(kb, query, intent, opts) ==
    SortByScore(SelectSeq([i \in 1..Len(kb) |->
                              [doc |-> kb[i],
                               score |-> calculateRelevanceScore(kb[i], query, intent, opts)]],
                          LAMBDA x : KeepScored(x, opts)))

\* reads of the intent that throw a TypeError in hybridRetrieve
RetrieveThrows(kb, intent, opts) ==
    \/ ~IsArr(Prop(intent, "cultures_involved"))
    \/ /\ Len(kb) > 0
       /\ \/ /\ opts.includeRelatedDisciplines
             /\ Truthy(Prop(intent, "secondary_disciplines"))
             /\ ~Iterable(Prop(intent, "secondary_disciplines"))
          \/ /\ Truthy(Prop(intent, "subfields"))
             /\ ~Iterable(Prop(intent, "subfields"))
          \/ \E i \in 1..Len(Prop(intent, "cultures_involved").a) :
                ~IsStr(Prop(intent, "cultures_involved").a[i])
          \/ ~Iterable(Prop(intent, "key_concepts"))
          \/ \E i \in 1..Len(Elems(Prop(intent, "key_concepts"))) :
                ~IsStr(Elems(Prop(intent, "key_concepts"))[i])

hybridRetrieve(kb, query, intent, options) ==
    LET opts == MergeOptions(options) IN
    IF RetrieveThrows(kb, intent, opts) THEN Thrown
    ELSE LET diversified ==
                diversifyResults(Candidates(kb, query, intent, opts), intent, opts.maxResults)
         IN Returned([i \in 1..Len(diversified) |-> diversified[i].doc])

\* ------------------------------------------------------------------------
\* lib/rag/context-assembler.ts
\* ------------------------------------------------------------------------
getDisciplineLabel(discipline) ==
    CASE discipline = "linguistics" -> "Linguistics (Language Studies)"
      [] discipline = "literature" -> "Literary Studies"
      [] discipline = "cultural_studies" -> "Cultural Studies"
      [] OTHER -> discipline

\* one summary line per document, as the pieces of its template
summarizeHumanitiesDocs(docs) ==
    [i \in 1..Len(docs) |->
        <<getDisciplineLabel(PrimaryDisc(docs[i])), ": ",
          IF Len(docs[i].culture) > 0 THEN docs[i].culture[1] ELSE "General",
          " context (", docs[i].confidence, " confidence) - ", docs[i].source>>]

mapSourceType(sourceType) ==
    IF sourceType = "few_shot" THEN "few-shot"
    ELSE IF sourceType = "ethnography" THEN "ethnography"
    ELSE "linguistics"

\* one summary line per document of retrieveDocuments, as the pieces of its
\* template (metadata has no category, so the first domain is shown)
summarizeSources(docs) ==
    [i \in 1..Len(docs) |->
        JStr(<<IF mapSourceType(docs[i].source_type) = "few-shot" THEN "Few-Shot Example"
               ELSE IF mapSourceType(docs[i].source_type) = "ethnography"
               THEN "Ethnographic Study"
               ELSE "Linguistics Literature",
               ": ", PrimaryDisc(docs[i]), " (", docs[i].confidence, " confidence)">>)]

\* ------------------------------------------------------------------------
\* lib/pipeline/cultural-pipeline.ts: culturalPipeline
\* ------------------------------------------------------------------------
\* the conversion of buildRagQuery to the legacy format
LegacyIntentOf(h) ==
    JObj(<<[k |-> <<"cultures_involved">>, v |-> Prop(h, "cultures_involved")],
           [k |-> <<"social_domain">>, v |-> Prop(h, "social_domain")],
           [k |-> <<"potential_conflicts">>, v |-> Prop(h, "potential_conflicts")],
           [k |-> <<"key_concepts">>, v |-> Prop(h, "key_concepts")],
           [k |-> <<"query_type">>,
            v |-> IF Prop(h, "query_type") \in {StrOf("comparative"), StrOf("interpretive")}
                  THEN StrOf("cultural_explanation")
                  ELSE Prop(h, "query_type")]>>)

\* buildRagQuery: the analysed intent, converted (the singleton set binds
\* the analysed intent to its value)
buildRagQuery(question, gen) ==
    CHOOSE legacy \in {LegacyIntentOf(h) : h \in {analyzeHumanitiesIntent(question, gen).v}} :
        TRUE

\* x.length > 1
LengthAboveOne(v) == (IsArr(v) /\ Len(v.a) > 1) \/ (IsStr(v) /\ Len(v.s) > 1)

\* key_concepts.join(' '), as the words the retriever splits it into
JoinedWords(concepts) ==
    IF Len(concepts) = 0 THEN <<"">>
    ELSE [i \in 1..Len(concepts) |->
            IF IsStr(concepts[i]) /\ Len(concepts[i].s) > 0 THEN concepts[i].s[1] ELSE ""]

\* the documents of retrieveDocuments(intent, maxResults); the conversion
\* to the legacy format renames fields and maps source_type
retrieveDocuments(kb, legacy, maxResults) ==
    LET cultures == Prop(legacy, "cultures_involved")
        concepts == Prop(legacy, "key_concepts")
        humanitiesIntent ==
            JObj(<<[k |-> <<"cultures_involved">>, v |-> cultures],
                   [k |-> <<"potential_conflicts">>, v |-> Prop(legacy, "potential_conflicts")],
                   [k |-> <<"primary_discipline">>, v |-> StrOf("linguistics")],
                   [k |-> <<"secondary_disciplines">>, v |-> StrArr(<<"cultural_studies">>)],
                   [k |-> <<"subfields">>, v |-> StrArr(<<"pragmatics">>)],
                   [k |-> <<"social_domain">>, v |-> Prop(legacy, "social_domain")],
                   [k |-> <<"key_concepts">>, v |-> concepts],
                   [k |-> <<"query_type">>, v |-> Prop(legacy, "query_type")],
                   [k |-> <<"interpretive_frame">>, v |-> JStr(<<"General", SP, "analysis">>)],
                   [k |-> <<"requires_comparison">>, v |-> JBool(LengthAboveOne(cultures))],
                   [k |-> <<"requires_historical_context">>, v |-> JBool(FALSE)],
                   [k |-> <<"analysis_confidence">>, v |-> StrOf("medium")]>>)
    IN IF ThrowsOnRead(cultures) \/ ~IsArr(concepts) THEN Thrown
       ELSE hybridRetrieve(kb, JoinedWords(concepts.a), humanitiesIntent,
                           [maxResults |-> maxResults])

\* reasoningOutput.references_used = [...sourceSummaries,
\*                                    ...(reasoningOutput.references_used || [])]
AddReferences(reasoningOutput, sourceSummaries) ==
    LET old == Prop(reasoningOutput, "references_used") IN
    IF ThrowsOnRead(reasoningOutput) THEN Thrown
    ELSE IF Truthy(old) /\ ~Iterable(old) THEN Thrown
    ELSE IF ~IsObj(reasoningOutput) THEN Thrown
    ELSE Returned(JObj(Put(reasoningOutput.o, <<"references_used">>,
                           JArr(sourceSummaries \o Elems(OrEmpty(old))))))

\* the try block of stage 4 and its catch
AuditedReasoning(reasoningOutput, gen) ==
    LET audited == callLLM("json", gen) IN
    IF audited.threw \/ parseLLMJson(audited.v).threw THEN reasoningOutput
    ELSE parseLLMJson(audited.v).v

\* ------------------------------------------------------------------------
\* app/api/chat/route.ts
\* ------------------------------------------------------------------------
\* formatReasoningOutput reads the fields of reasoning and maps over
\* references_used
formatReasoningOutputThrows(reasoning) ==
    ThrowsOnRead(reasoning) \/ ~IsArr(Prop(reasoning, "references_used"))

\* ------------------------------------------------------------------------
\* Sample texts
\* ------------------------------------------------------------------------
\* length of the long plain text, one more than the fallback intro keeps
LongTextLen == 201

ArticleA == Article(JStr(<<"a">>), JArr(<<>>), JStr(<<"c">>))
ArticleB ==
    Article(JStr(<<"Both", SP, "views">>),
            JArr(<<Section(JStr(<<"Norms">>), JStr(<<"often">>), JArr(<<JStr(<<"hedge">>)>>)),
                   Section(JStr(<<>>), JStr(<<"p", NL, "q">>), JArr(<<>>))>>),
            JStr(<<>>))
\* an article whose paragraph quotes a fenced code block
ArticleF ==
    Article(JStr(<<"a">>),
            JArr(<<Section(JStr(<<"t">>), JStr(<<FENCE, "x", FENCE>>), JArr(<<>>))>>),
            JStr(<<"c">>))

ValidArticles == {ArticleA, ArticleB, ArticleF}

\* JSON values that are not an ArticleOutput
WrongShapes ==
    { JNull, JArr(<<>>), JObj(<<>>), JNum(1), JNum(0), JStr(<<"x">>), JBool(FALSE),
      Article(JStr(<<"a">>), JArr(<<JNull>>), JStr(<<"c">>)),
      Article(JStr(<<"a">>), JArr(<<JNum(1)>>), JStr(<<"c">>)),
      Article(JStr(<<"a">>), JArr(<<JStr(<<"s">>)>>), JStr(<<"c">>)),
      Article(JStr(<<"a">>),
              JArr(<<Section(JStr(<<"t">>), JStr(<<"p">>), JArr(<<JNum(1)>>))>>),
              JStr(<<"c">>)),
      Article(JStr(<<"a">>),
              JArr(<<Section(JStr(<<"t">>), JNull, JArr(<<>>))>>), JStr(<<"c">>)),
      Article(JNum(1), JArr(<<>>), JStr(<<"c">>)),
      Article(JStr(<<"a">>), JObj(<<>>), JStr(<<"c">>)),
      Article(JStr(<<"a">>), JArr(<<>>), JNull),
      Obj3("intro", JNull, "sections", JArr(<<>>), "conclusion", Obj1("text", JStr(<<>>))),
      Obj3("intro", JArr(<<>>), "sections", JArr(<<>>), "conclusion", Obj1("text", JStr(<<>>))),
      Obj1("intro", Obj1("text", JStr(<<"a">>))) }

NotJson ==
    { <<>>, <<"not", SP, "json", SP, "at", SP, "all">>, <<"{">>,
      <<"{", Q, "intro", Q, ":", "}">>, <<"[", "1", ",", "]">>,
      <<Q, "a", NL, "b", Q>>, [i \in 1..LongTextLen |-> "x"] }

Bodies == {JSONstringify(v, 0) : v \in ValidArticles \cup WrongShapes} \cup NotJson

Wrap(w, body) ==
    CASE w = "bare" -> body
      [] w = "padded" -> <<SP, NL>> \o body \o <<NL>>
      [] w = "fenced" -> <<FENCE, NL>> \o body \o <<NL, FENCE>>
      [] w = "jsonfenced" -> <<FENCE, JSONTAG, NL>> \o body \o <<NL, FENCE>>
      [] w = "prose" -> <<"Here", SP, "it", SP, "is", ":", NL, FENCE, JSONTAG, SP>>
                        \o body \o <<SP, FENCE, NL, "Done">>
      [] OTHER -> <<FENCE, JSONTAG, NL>> \o body

Wrappers == {"bare", "padded", "fenced", "jsonfenced", "prose", "unclosed"}

Texts == {Wrap(w, b) : w \in Wrappers, b \in Bodies}

\* ------------------------------------------------------------------------
\* Inputs of the retriever
\* ------------------------------------------------------------------------
\* largest maxResults tried (the smallest is -1)
MaxMaxResults == 7

Questions ==
    { <<"Why", "does", "'Sudah", "menikah?'", "sound", "polite", "in", "Indonesian",
        "but", "intrusive", "in", "English?">>,
      <<"">>,
      <<"symbolism", "in", "Japanese", "novel">> }

RetrievalIntents ==
    { MkIntent(c, d, <<>>, f, k, "general", r, "high") :
        c \in {<<"General">>, <<"Indonesia", "English">>, <<"Atlantis">>},
        d \in {"linguistics", "literature", "cultural_studies", "philosophy"},
        f \in {<<>>, <<"pragmatics">>, <<"sociolinguistics">>},
        k \in {<<>>, <<"politeness", "indirectness">>},
        r \in BOOLEAN }

RetrievalOptions ==
    { [x \in {} |-> 0] }
    \cup { [maxResults |-> n, minConfidence |-> m] :
             n \in (-1)..MaxMaxResults, m \in {"low", "medium", "high"} }

\* ------------------------------------------------------------------------
\* State
\* ------------------------------------------------------------------------
Idle == [pc |-> "idle"]

VARIABLES
    store,            \* the document store
    parseIn,          \* the text handed to parseArticleResponse
    parseOut,         \* what parseArticleResponse did with it
    retrIn,           \* the arguments of a hybridRetrieve call
    retrOut,          \* what hybridRetrieve did with them
    pc,               \* the stage humanitiesPipeline has reached
    options,          \* the PipelineOptions of the run
    calls,            \* what each external generation call did, in order
    intent,           \* const intent
    docs,             \* const docs
    sourceSummaries,  \* const sourceSummaries
    articleOutput,    \* let articleOutput
    preAudit,         \* articleOutput as it was when stage 5 began
    result,           \* the PipelineResult returned
    route,            \* a POST of the chat route: its request and progress
    scoreIn,          \* the arguments of two calculateRelevanceScore calls
    scoreOut,         \* the scores they returned
    loadIn,           \* the documents the knowledge-base module is written with
    op,               \* the last retrieval or lookup called and what it returned
    callIn,           \* the arguments of other functions called directly
    callOut,          \* what those calls returned, in order
    stages            \* the stages humanitiesPipeline has run, in order

pipeVars == <<pc, options, calls, intent, docs, sourceSummaries, articleOutput, preAudit, result,
              stages>>

\* functions called directly
callVars == <<callIn, callOut>>

directVars == <<scoreIn, scoreOut, loadIn, op, callVars>>

vars == <<store, parseIn, parseOut, retrIn, retrOut, pipeVars, route, directVars>>

DirectIdle ==
    /\ scoreIn = Idle
    /\ scoreOut = Idle
    /\ loadIn = Idle
    /\ op = Idle
    /\ callIn = Idle
    /\ callOut = Idle

PipeIdle ==
    /\ pc = "idle"
    /\ options = Idle
    /\ calls = <<>>
    /\ intent = Undefined
    /\ docs = <<>>
    /\ sourceSummaries = <<>>
    /\ articleOutput = Undefined
    /\ preAudit = Undefined
    /\ result = Undefined
    /\ stages = <<>>

\* ------------------------------------------------------------------------
\* parseArticleResponse applied to every sample text
\* ------------------------------------------------------------------------
InitParse ==
    /\ store = HUMANITIES_KNOWLEDGE_BASE
    /\ DirectIdle
    /\ parseIn \in Texts
    /\ parseOut = [pc |-> "call"]
    /\ retrIn = Idle
    /\ retrOut = Idle
    /\ PipeIdle
    /\ route = Idle

ParseCall ==
    /\ parseOut.pc = "call"
    /\ parseOut' = [pc |-> "done", r |-> parseArticleResponse(parseIn)]
    /\ UNCHANGED <<store, directVars, parseIn, retrIn, retrOut, pipeVars, route>>

NextParse == ParseCall

SpecParse == InitParse /\ [][NextParse]_vars

\* C7: for every input string (empty, not JSON, JSON of the wrong shape such
\* as null, arrays, sections with null or non-object entries)
\* parseArticleResponse returns without throwing and what it returns passes
\* validateArticleSchema.
C7_ParseIsTotal ==
    parseOut.pc = "done" =>
        /\ ~parseOut.r.threw
        /\ validateArticleSchema(parseOut.r.v) = "ok"

\* a call on JSON whose sections hold a null entry has returned
C7_Witness ==
    /\ parseOut.pc = "done"
    /\ ~JSONparse(parseIn).threw
    /\ IsArr(Prop(JSONparse(parseIn).v, "sections"))
    /\ \E i \in 1..Len(Prop(JSONparse(parseIn).v, "sections").a) :
          Prop(JSONparse(parseIn).v, "sections").a[i] = JNull

\* the parse or the validation of the text fails
ParseOrValidationFails(text) ==
    \/ JSONparse(jsonStrOf(text)).threw
    \/ validateArticleSchema(JSONparse(jsonStrOf(text)).v) # "ok"

\* C8: on any parse or validation failure the result is exactly: intro.text
\* the first 200 characters of the raw input, one section titled "Response"
\* whose paragraph is the whole raw input and whose bullets are empty, and
\* conclusion.text the empty string.
C8_FallbackShape ==
    (parseOut.pc = "done" /\ ParseOrValidationFails(parseIn)) =>
        /\ ~parseOut.r.threw
        /\ parseOut.r.v =
             JObj(<<[k |-> <<"intro">>,
                     v |-> JObj(<<[k |-> <<"text">>,
                                   v |-> JStr([i \in 1..Min(200, Len(parseIn)) |-> parseIn[i]])]>>)],
                    [k |-> <<"sections">>,
                     v |-> JArr(<<JObj(<<[k |-> <<"title">>, v |-> JStr(<<"Response">>)],
                                         [k |-> <<"paragraph">>, v |-> JStr(parseIn)],
                                         [k |-> <<"bullets">>, v |-> JArr(<<>>)]>>)>>)],
                    [k |-> <<"conclusion">>,
                     v |-> JObj(<<[k |-> <<"text">>, v |-> JStr(<<>>)]>>)]>>)

\* the fallback was returned for a text longer than 200 characters that is
\* not JSON, with surrounding white space
C8_Witness ==
    /\ parseOut.pc = "done"
    /\ ParseOrValidationFails(parseIn)
    /\ Len(parseIn) > 200
    /\ Trim(parseIn) # parseIn
    /\ Len(Prop(Prop(parseOut.r.v, "intro"), "text").s) = 200
    /\ Prop(Prop(parseOut.r.v, "sections").a[1], "paragraph").s = parseIn

\* ------------------------------------------------------------------------
\* hybridRetrieve applied to every sample query, intent and options
\* ------------------------------------------------------------------------
InitRetrieve ==
    /\ store = HUMANITIES_KNOWLEDGE_BASE
    /\ DirectIdle
    /\ parseIn = <<>>
    /\ parseOut = Idle
    /\ retrIn \in [query : {<<"">>, <<"polite", "silence">>}, intent : RetrievalIntents,
                   options : RetrievalOptions]
    /\ retrOut = [pc |-> "call"]
    /\ PipeIdle
    /\ route = Idle

RetrieveCall ==
    /\ retrOut.pc = "call"
    /\ retrOut' = [pc |-> "done",
                   r |-> hybridRetrieve(store, retrIn.query, retrIn.intent, retrIn.options)]
    /\ UNCHANGED <<store, directVars, parseIn, parseOut, retrIn, pipeVars, route>>

NextRetrieve == RetrieveCall

SpecRetrieve == InitRetrieve /\ [][NextRetrieve]_vars

\* the maxResults of the call: the one given, else 5
GivenMaxResults ==
    IF "maxResults" \in DOMAIN retrIn.options THEN retrIn.options.maxResults ELSE 5

RetrieveReturned == retrOut.pc = "done" /\ ~retrOut.r.threw

\* C9 as stated: for every query, intent and options hybridRetrieve returns
\* at most options.maxResults documents (at most 5 when it is not given).
C9_AtMostMaxResults ==
    RetrieveReturned => Len(retrOut.r.v) <= GivenMaxResults

\* C9 for the maxResults that can bound a length: for every query and
\* intent and every maxResults >= 0 hybridRetrieve returns at most
\* maxResults documents (at most 5 when it is not given).
C9_AtMostMaxResultsNonNegative ==
    (RetrieveReturned /\ GivenMaxResults >= 0) => Len(retrOut.r.v) <= GivenMaxResults

\* a call with maxResults 3 returned 3 of more than 3 candidates
C9_Witness ==
    /\ RetrieveReturned
    /\ "maxResults" \in DOMAIN retrIn.options
    /\ GivenMaxResults = 3
    /\ Len(retrOut.r.v) = 3
    /\ Len(Candidates(store, retrIn.query, retrIn.intent, MergeOptions(retrIn.options))) > 3

\* the discipline or the culture a document is counted under
KeyOf(doc, kind) == IF kind = "discipline" THEN PrimaryDisc(doc) ELSE PrimaryCulture(doc)

\* no discipline (culture) is shared by more than ceil(k / 2) of the
\* documents (for an integer k, n <= ceil(k / 2) exactly when 2 * n <= k + 1)
AtMostHalfShare(returned, k, kind) ==
    \A i \in 1..Len(returned) :
        2 * Cardinality({j \in 1..Len(returned) :
                            KeyOf(returned[j], kind) = KeyOf(returned[i], kind)}) <= k + 1

\* the disciplines (cultures) among the candidates of the call
PoolValues(kind) ==
    LET pool == Candidates(store, retrIn.query, retrIn.intent, MergeOptions(retrIn.options))
    IN {KeyOf(pool[i].doc, kind) : i \in 1..Len(pool)}

\* C10 as stated: with maxResults = k no discipline is the discipline of
\* more than ceil(k/2) returned documents and, when requires_comparison is
\* true, no culture is the culture of more than ceil(k/2) of them, provided
\* at least ceil(k/2) disciplines (cultures) have a candidate with positive
\* score.
C10_DiversificationBound ==
    RetrieveReturned =>
        /\ 2 * Cardinality(PoolValues("discipline")) >= GivenMaxResults
           => AtMostHalfShare(retrOut.r.v, GivenMaxResults, "discipline")
        /\ (Truthy(Prop(retrIn.intent, "requires_comparison"))
            /\ 2 * Cardinality(PoolValues("culture")) >= GivenMaxResults)
           => AtMostHalfShare(retrOut.r.v, GivenMaxResults, "culture")

\* every returned document was admitted by the capped pass
NoBackfill ==
    Len(retrOut.r.v) =
        Len(Admitted(Candidates(store, retrIn.query, retrIn.intent, MergeOptions(retrIn.options)),
                     retrIn.intent, GivenMaxResults))

\* C10 with the proviso the code has: the bound holds for the primary
\* discipline and, when requires_comparison is true, for the primary
\* culture, whenever no document was backfilled.
C10_DiversificationBoundNoBackfill ==
    (RetrieveReturned /\ NoBackfill) =>
        /\ AtMostHalfShare(retrOut.r.v, GivenMaxResults, "discipline")
        /\ Truthy(Prop(retrIn.intent, "requires_comparison"))
           => AtMostHalfShare(retrOut.r.v, GivenMaxResults, "culture")

\* a comparison retrieval that returned 4 documents without backfill although
\* a candidate was passed over by the caps
C10_Witness ==
    /\ RetrieveReturned
    /\ NoBackfill
    /\ Truthy(Prop(retrIn.intent, "requires_comparison"))
    /\ GivenMaxResults = 4
    /\ Len(retrOut.r.v) = 4
    /\ LET pool == Candidates(store, retrIn.query, retrIn.intent, MergeOptions(retrIn.options))
       IN \E i \in 1..4 : pool[i].doc # retrOut.r.v[i]

\* the score of a document for the call
ScoreInCall(doc) ==
    calculateRelevanceScore(doc, retrIn.query, retrIn.intent, MergeOptions(retrIn.options))

\* low < medium < high
ConfidenceRank(c) == CASE c = "low" -> 1 [] c = "medium" -> 2 [] c = "high" -> 3

\* C11: every document hybridRetrieve returns has a score above 0 for the
\* call and a confidence at or above options.minConfidence in the order
\* low < medium < high; an intent that matches no document yields the empty
\* list.
C11_ReturnedScoredAndConfident ==
    RetrieveReturned =>
        /\ \A i \in 1..Len(retrOut.r.v) :
              /\ ScoreInCall(retrOut.r.v[i]) > 0
              /\ ConfidenceRank(retrOut.r.v[i].confidence)
                    >= ConfidenceRank(MergeOptions(retrIn.options).minConfidence)
        /\ (\A i \in 1..Len(store) : ScoreInCall(store[i]) <= 0) => retrOut.r.v = <<>>

\* a call with minConfidence high left out a document of medium confidence
\* that scores higher than a document it returned
C11_Witness ==
    /\ RetrieveReturned
    /\ MergeOptions(retrIn.options).minConfidence = "high"
    /\ \E i \in 1..Len(store) :
          /\ store[i].confidence = "medium"
          /\ \A j \in 1..Len(retrOut.r.v) : retrOut.r.v[j] # store[i]
          /\ \E j \in 1..Len(retrOut.r.v) :
                ScoreInCall(retrOut.r.v[j]) < ScoreInCall(store[i])

\* a retrieval for linguistics with the key concepts politeness and
\* indirectness and maxResults 3 has returned
PolitenessRetrieval ==
    /\ RetrieveReturned
    /\ Prop(retrIn.intent, "primary_discipline") = StrOf("linguistics")
    /\ Prop(retrIn.intent, "key_concepts") = StrArr(<<"politeness", "indirectness">>)
    /\ "maxResults" \in DOMAIN retrIn.options
    /\ retrIn.options.maxResults = 3

TextHasBoth(doc) == {"politeness", "indirectness"} \subseteq doc.textWords
TextHasNeither(doc) == {"politeness", "indirectness"} \cap doc.textWords = {}

\* C13 as stated: retrieving with primary_discipline linguistics,
\* key_concepts [politeness, indirectness] and maxResults 3 over the sample
\* documents returns the document whose text contains both concepts before
\* every returned document whose text contains neither, and never leaves it
\* out while returning such a document, whatever the rest of the request is.
C13_BothConceptsRankFirst ==
    PolitenessRetrieval =>
        \A b \in 1..Len(store) :
            TextHasBoth(store[b]) =>
                \A j \in 1..Len(retrOut.r.v) :
                    TextHasNeither(retrOut.r.v[j]) =>
                        \E i \in 1..(j - 1) : retrOut.r.v[i] = store[b]

\* the request without its primary discipline and key concepts
RestOfIntent(h) ==
    JObj(Put(Put(h.o, <<"primary_discipline">>, StrOf("")), <<"key_concepts">>, JArr(<<>>)))

\* no subfield, culture, secondary discipline, context or query word of the
\* request matches a document: every document scores 0 for the rest
RestMatchesNothing ==
    \A i \in 1..Len(store) :
        calculateRelevanceScore(store[i], retrIn.query, RestOfIntent(retrIn.intent),
                                MergeOptions(retrIn.options)) = 0

\* C13: when nothing else of the request matches a document, retrieving with
\* primary_discipline linguistics, key_concepts [politeness, indirectness]
\* and maxResults 3 over the sample documents returns the document whose
\* text contains both concepts before every returned document whose text
\* contains neither, and never leaves it out while returning such a
\* document.
C13_BothConceptsRankFirstAlone ==
    (PolitenessRetrieval /\ RestMatchesNothing) =>
        \A b \in 1..Len(store) :
            TextHasBoth(store[b]) =>
                \A j \in 1..Len(retrOut.r.v) :
                    TextHasNeither(retrOut.r.v[j]) =>
                        \E i \in 1..(j - 1) : retrOut.r.v[i] = store[b]

\* such a retrieval returned the document with both concepts and, after it, a
\* document with neither
C13_Witness ==
    /\ PolitenessRetrieval
    /\ RestMatchesNothing
    /\ Len(retrOut.r.v) = 3
    /\ \E i \in 1..3 : TextHasBoth(retrOut.r.v[i])
    /\ \E j \in 1..3 : TextHasNeither(retrOut.r.v[j])

\* the candidates of the call
CallCandidates == Candidates(store, retrIn.query, retrIn.intent, MergeOptions(retrIn.options))

\* the place of the document among the candidates
PlaceOf(pool, doc) == CHOOSE k \in 1..Len(pool) : pool[k].doc = doc

\* C27: for maxResults >= 0 the diversification returns exactly
\* min(maxResults, number of filtered candidates) documents, none of them
\* twice, and the documents it backfills come in score order.
C27_ExactlyMinNoDuplicates ==
    (RetrieveReturned /\ GivenMaxResults >= 0) =>
        \E pool \in {CallCandidates} :
        \E out \in {retrOut.r.v} :
        \E first \in {Len(Admitted(pool, retrIn.intent, GivenMaxResults)) + 1} :
           /\ Len(out) = Min(GivenMaxResults, Len(pool))
           /\ \A i, j \in 1..Len(out) : i # j => out[i] # out[j] /\ out[i].id # out[j].id
           /\ \A i \in 1..Len(out) : \E k \in 1..Len(pool) : pool[k].doc = out[i]
           /\ \A i, j \in first..Len(out) :
                 i < j => /\ PlaceOf(pool, out[i]) < PlaceOf(pool, out[j])
                          /\ pool[PlaceOf(pool, out[i])].score >= pool[PlaceOf(pool, out[j])].score

\* a call returned maxResults of more candidates, two or more of them
\* backfilled
C27_Witness ==
    /\ RetrieveReturned
    /\ GivenMaxResults >= 3
    /\ Len(CallCandidates) > GivenMaxResults
    /\ Len(retrOut.r.v) = GivenMaxResults
    /\ Len(Admitted(CallCandidates, retrIn.intent, GivenMaxResults)) + 2 <= Len(retrOut.r.v)

\* C30: whenever hybridRetrieve returns a list that is not empty, for
\* maxResults >= 1, its first element is a filtered candidate of maximal
\* score, the documents admitted by the capped pass come in non-increasing
\* score order, and the backfilled documents come after all of them.
C30_BestFirstAdmittedThenBackfilled ==
    (RetrieveReturned /\ GivenMaxResults >= 1 /\ retrOut.r.v # <<>>) =>
        \E pool \in {CallCandidates} :
        \E out \in {retrOut.r.v} :
        \E admitted \in {Admitted(pool, retrIn.intent, GivenMaxResults)} :
           /\ \A k \in 1..Len(pool) : ScoreInCall(out[1]) >= pool[k].score
           /\ \E k \in 1..Len(pool) : pool[k].doc = out[1]
           /\ Len(admitted) <= Len(out)
           /\ \A i \in 1..Len(admitted) : out[i] = admitted[i].doc
           /\ \A i, j \in 1..Len(admitted) :
                 i < j => ScoreInCall(out[i]) >= ScoreInCall(out[j])

\* a call returned admitted documents of different scores and, after them,
\* a backfilled document that scores higher than the last admitted one
C30_Witness ==
    /\ RetrieveReturned
    /\ GivenMaxResults >= 1
    /\ \E n \in {Len(Admitted(CallCandidates, retrIn.intent, GivenMaxResults))} :
          /\ n >= 2
          /\ n < Len(retrOut.r.v)
          /\ ScoreInCall(retrOut.r.v[1]) > ScoreInCall(retrOut.r.v[n])
          /\ ScoreInCall(retrOut.r.v[n + 1]) > ScoreInCall(retrOut.r.v[n])

\* ------------------------------------------------------------------------
\* calculateRelevanceScore applied to an intent without and with one more
\* key concept
\* ------------------------------------------------------------------------
\* the concept added: in texts and related concepts, in the related concepts
\* of one document only, in no document, the empty string
ScoreConcepts == {StrOf("politeness"), StrOf("symbolism"), StrOf("Atlantis"), StrOf("")}

ScoreOptions ==
    { [x \in {} |-> 0],
      [preferHighConfidence |-> FALSE],
      [includeRelatedDisciplines |-> FALSE, contexts |-> <<"formal">>] }

\* the intent with one more key concept, first or last
WithConcept(h, concept, first) ==
    JObj(Put(h.o, <<"key_concepts">>,
             JArr(IF first THEN <<concept>> \o Prop(h, "key_concepts").a
                  ELSE Append(Prop(h, "key_concepts").a, concept))))

InitScore ==
    /\ store = HUMANITIES_KNOWLEDGE_BASE
    /\ parseIn = <<>>
    /\ parseOut = Idle
    /\ retrIn = Idle
    /\ retrOut = Idle
    /\ PipeIdle
    /\ route = Idle
    /\ scoreIn \in [doc : 1..Len(HUMANITIES_KNOWLEDGE_BASE),
                    query : {<<"">>, <<"polite", "silence">>},
                    intent : RetrievalIntents, options : ScoreOptions,
                    concept : ScoreConcepts, first : BOOLEAN]
    /\ scoreOut = [pc |-> "call"]
    /\ loadIn = Idle
    /\ op = Idle
    /\ callIn = Idle
    /\ callOut = Idle

ScoreCall ==
    /\ scoreOut.pc = "call"
    /\ \E opts \in {MergeOptions(scoreIn.options)} :
          scoreOut' =
            [pc |-> "done",
             before |-> calculateRelevanceScore(store[scoreIn.doc], scoreIn.query,
                                                scoreIn.intent, opts),
             after |-> calculateRelevanceScore(store[scoreIn.doc], scoreIn.query,
                          WithConcept(scoreIn.intent, scoreIn.concept, scoreIn.first), opts)]
    /\ UNCHANGED <<store, scoreIn, loadIn, op, callVars, parseIn, parseOut, retrIn, retrOut,
                   pipeVars, route>>

SpecScore == InitScore /\ [][ScoreCall]_vars

\* the concept occurs in the text or in a related concept of the document
\* (as the score looks for it: in lower case, as a substring)
ConceptOccurs(doc, concept) ==
    \/ SomeIncludes(<<doc.id>>, doc.textWords, concept)
    \/ SomeIncludes(doc.related_concepts, doc.relatedWords, concept)

\* C12: for every document, query and options, one more key concept in
\* intent.key_concepts (all else equal) never lowers the relevance score of
\* the document, and raises it when the concept occurs in the text or the
\* related concepts of the document.
C12_ConceptNeverLowersScore ==
    scoreOut.pc = "done" =>
        /\ scoreOut.after >= scoreOut.before
        /\ ConceptOccurs(store[scoreIn.doc], scoreIn.concept)
             => scoreOut.after > scoreOut.before

\* a concept found only among the related concepts of a document raised a
\* score that was positive before
C12_Witness ==
    /\ scoreOut.pc = "done"
    /\ scoreOut.before > 0
    /\ scoreOut.after > scoreOut.before
    /\ ~SomeIncludes(<<store[scoreIn.doc].id>>, store[scoreIn.doc].textWords, scoreIn.concept)
    /\ Len(Prop(scoreIn.intent, "key_concepts").a) > 0

\* nothing of the request matches the document: none of the steps 1 to 6
\* of calculateRelevanceScore adds to its score
NoAdditiveMatch(doc, query, h, opts) ==
    /\ ~Includes(doc.discipline, Prop(h, "primary_discipline"))
    /\ opts.includeRelatedDisciplines =>
          \A d \in {Elems(OrEmpty(Prop(h, "secondary_disciplines")))[k] :
                      k \in 1..Len(Elems(OrEmpty(Prop(h, "secondary_disciplines"))))} :
             ~Includes(doc.discipline, d)
    /\ \A k \in 1..Len(Elems(OrEmpty(Prop(h, "subfields")))) :
          ~Includes(doc.subfield, Elems(OrEmpty(Prop(h, "subfields")))[k])
    /\ \A k \in 1..Len(Prop(h, "cultures_involved").a) :
          ~SomeIncludes(doc.culture, doc.cultureWords, Prop(h, "cultures_involved").a[k])
    /\ "contexts" \in DOMAIN opts =>
          \A k \in 1..Len(opts.contexts) : \A m \in 1..Len(doc.context) :
             opts.contexts[k] # doc.context[m]
    /\ \A k \in 1..Len(Prop(h, "key_concepts").a) :
          ~ConceptOccurs(doc, Prop(h, "key_concepts").a[k])
    /\ \A k \in 1..Len(query) : TokLen(query[k]) > 3 => query[k] \notin doc.textWords

\* C28: the score calculateRelevanceScore returns is the sum of the additive
\* terms, multiplied by the confidence factor only when preferHighConfidence
\* is set, multiplied by the source type factor; a document with no additive
\* match scores 0.
C28_ScoreIsTermsTimesFactors ==
    scoreOut.pc = "done" =>
        \E doc \in {store[scoreIn.doc]} :
        \E opts \in {MergeOptions(scoreIn.options)} :
        \E terms \in {AdditiveScore(doc, scoreIn.query, scoreIn.intent, opts)} :
           /\ terms >= 0
           /\ opts.preferHighConfidence =>
                 scoreOut.before = terms * SCORING_WEIGHTS.confidenceBonus[doc.confidence]
                                         * SCORING_WEIGHTS.sourceTypeBonus[doc.source_type]
           /\ ~opts.preferHighConfidence =>
                 scoreOut.before = terms * 10 * SCORING_WEIGHTS.sourceTypeBonus[doc.source_type]
           /\ NoAdditiveMatch(doc, scoreIn.query, scoreIn.intent, opts) <=> terms = 0
           /\ NoAdditiveMatch(doc, scoreIn.query, scoreIn.intent, opts) => scoreOut.before = 0

\* a document of high confidence was scored above 0 without
\* preferHighConfidence
C28_Witness ==
    /\ scoreOut.pc = "done"
    /\ ~MergeOptions(scoreIn.options).preferHighConfidence
    /\ store[scoreIn.doc].confidence = "high"
    /\ store[scoreIn.doc].source_type # "analysis"
    /\ scoreOut.before > 0

\* ------------------------------------------------------------------------
\* lib/pipeline/cultural-pipeline.ts: humanitiesPipeline
\* ------------------------------------------------------------------------
\* what the intent call may answer
IntentAnswers ==
    { JSONstringify(MkIntent(<<"Indonesia", "English">>, "linguistics", <<"cultural_studies">>,
                             <<"pragmatics">>, <<"politeness">>, "comparative", TRUE, "high"), 0),
      JSONstringify(MkIntent(<<>>, "physics", <<>>, <<>>, <<>>, "general", FALSE, "low"), 0),
      \* no subfields
      JSONstringify(JObj(<<[k |-> <<"cultures_involved">>, v |-> StrArr(<<"Indonesia">>)],
                           [k |-> <<"primary_discipline">>, v |-> StrOf("linguistics")]>>), 0),
      \* cultures_involved a string, no key_concepts
      JSONstringify(JObj(<<[k |-> <<"cultures_involved">>, v |-> StrOf("Indonesia")],
                           [k |-> <<"primary_discipline">>, v |-> StrOf("linguistics")],
                           [k |-> <<"subfields">>, v |-> StrArr(<<"pragmatics">>)]>>), 0),
      \* no key_concepts
      JSONstringify(JObj(<<[k |-> <<"cultures_involved">>, v |-> StrArr(<<"Indonesia">>)],
                           [k |-> <<"primary_discipline">>, v |-> StrOf("linguistics")],
                           [k |-> <<"subfields">>, v |-> StrArr(<<"pragmatics">>)]>>), 0),
      JSONstringify(JObj(<<>>), 0),
      JSONstringify(JNull, 0),
      <<"not", SP, "json", SP, "at", SP, "all">> }

IntentOutcomes == {GenThrows} \cup {GenText(t) : t \in IntentAnswers}

\* what the generation call may answer
GenerationAnswers ==
    { JSONstringify(ArticleA, 0),
      Wrap("jsonfenced", JSONstringify(ArticleB, 0)),
      Wrap("prose", JSONstringify(ArticleA, 0)),
      JSONstringify(ArticleF, 0),
      JSONstringify(JObj(<<>>), 0),
      JSONstringify(JNull, 0),
      JSONstringify(Article(JStr(<<"a">>), JArr(<<JNull>>), JStr(<<"c">>)), 0),
      <<"not", SP, "json", SP, "at", SP, "all">>,
      <<>> }

GenerationOutcomes == {GenThrows} \cup {GenText(t) : t \in GenerationAnswers}

\* what the audit call may answer when shown the article
AuditAnswers(article) ==
    { JSONstringify(article, 2),
      JSONstringify(ArticleB, 0),
      Wrap("fenced", JSONstringify(ArticleA, 0)),
      JSONstringify(JObj(<<>>), 0),
      JSONstringify(Article(JStr(<<"a">>), JArr(<<JNum(1)>>), JStr(<<"c">>)), 0),
      <<"No", SP, "issues", SP, "found">> }

AuditOutcomes(article) == {GenThrows} \cup {GenText(t) : t \in AuditAnswers(article)}

\* the options humanitiesPipeline gives hybridRetrieve
PipelineRetrievalOptions ==
    [maxResults |-> 5, preferHighConfidence |-> TRUE, includeRelatedDisciplines |-> TRUE]

\* the console.log lines of stage 1 call join on these two fields
StageOneLogThrows(i) ==
    ~IsArr(Prop(i, "cultures_involved")) \/ ~IsArr(Prop(i, "subfields"))

InitPipeline ==
    /\ store = HUMANITIES_KNOWLEDGE_BASE
    /\ DirectIdle
    /\ parseIn = <<>>
    /\ parseOut = Idle
    /\ retrIn = Idle
    /\ retrOut = Idle
    /\ pc = "stage1"
    /\ options \in [question : Questions, enableAuditor : BOOLEAN, includeReferences : BOOLEAN]
    /\ calls = <<>>
    /\ intent = Undefined
    /\ docs = <<>>
    /\ sourceSummaries = <<>>
    /\ articleOutput = Undefined
    /\ preAudit = Undefined
    /\ result = Undefined
    /\ stages = <<>>
    /\ route = Idle

\* stage 1: the intent analysis and its log lines
Stage1 ==
    /\ pc = "stage1"
    /\ \E gen \in IntentOutcomes :
          /\ calls' = Append(calls, gen)
          /\ intent' = analyzeHumanitiesIntent(options.question, gen).v
          /\ pc' = IF StageOneLogThrows(intent') THEN "raised" ELSE "stage2"
    /\ stages' = Append(stages, "ClassifyIntent")
    /\ UNCHANGED <<route, store, directVars, parseIn, parseOut, retrIn, retrOut, options, docs, sourceSummaries,
                   articleOutput, preAudit, result>>

\* stages 2 and 3: retrieval, context assembly and source summaries
Stage2 ==
    /\ pc = "stage2"
    /\ LET r == hybridRetrieve(store, options.question, intent, PipelineRetrievalOptions)
       IN IF r.threw
          THEN pc' = "raised" /\ UNCHANGED <<docs, sourceSummaries>>
          ELSE /\ docs' = r.v
               /\ sourceSummaries' = summarizeHumanitiesDocs(r.v)
               /\ pc' = "stage4"
    /\ stages' = stages \o (IF pc' = "raised" THEN <<"Retrieve">>
                           ELSE <<"Retrieve", "AssembleContext">>)
    /\ UNCHANGED <<route, store, directVars, parseIn, parseOut, retrIn, retrOut, options, calls, intent,
                   articleOutput, preAudit, result>>

\* stage 4: the generation call and the parse of its answer
Stage4 ==
    /\ pc = "stage4"
    /\ \E gen \in GenerationOutcomes :
          /\ calls' = Append(calls, gen)
          /\ LET response == callLLM("json", gen)
             IN IF response.threw
                THEN pc' = "raised" /\ UNCHANGED articleOutput
                ELSE /\ articleOutput' = parseArticleResponse(response.v).v
                     /\ pc' = "stage5"
    /\ stages' = stages \o (IF pc' = "raised" THEN <<"Generate">>
                           ELSE <<"Generate", "Validate">>)
    /\ UNCHANGED <<route, store, directVars, parseIn, parseOut, retrIn, retrOut, options, intent, docs,
                   sourceSummaries, preAudit, result>>

\* an audit whose catch repairs the article from the text of the failed call
AuditedArticleRepaired(article, gen) ==
    LET audited == callLLM("json", gen) IN
    IF audited.threw THEN FallbackArticle(gen.text)
    ELSE parseArticleResponse(audited.v).v

\* the try block of stage 5 and its catch
AuditedArticle(article, gen) ==
    LET audited == callLLM("json", gen) IN
    IF audited.threw THEN article
    ELSE parseArticleResponse(audited.v).v

\* stage 5 with the auditor enabled
Stage5 ==
    /\ pc = "stage5"
    /\ options.enableAuditor
    /\ \E gen \in AuditOutcomes(articleOutput) :
          /\ calls' = Append(calls, gen)
          /\ articleOutput' = AuditedArticle(articleOutput, gen)
    /\ preAudit' = articleOutput
    /\ pc' = "stage6"
    /\ stages' = stages \o (IF callLLM("json", calls'[Len(calls')]).threw THEN <<"Audit">>
                           ELSE <<"Audit", "Validate">>)
    /\ UNCHANGED <<route, store, directVars, parseIn, parseOut, retrIn, retrOut, options, intent, docs,
                   sourceSummaries, result>>

\* a stage 5 that runs the audit stage though the auditor is disabled
Stage5SkippedAudits ==
    /\ pc = "stage5"
    /\ ~options.enableAuditor
    /\ pc' = "stage6"
    /\ stages' = Append(stages, "Audit")
    /\ UNCHANGED <<route, store, directVars, parseIn, parseOut, retrIn, retrOut, options, calls, intent, docs,
                   sourceSummaries, articleOutput, preAudit, result>>

\* stage 5 with the auditor disabled
Stage5Skipped ==
    /\ pc = "stage5"
    /\ ~options.enableAuditor
    /\ pc' = "stage6"
    /\ UNCHANGED stages
    /\ UNCHANGED <<route, store, directVars, parseIn, parseOut, retrIn, retrOut, options, calls, intent, docs,
                   sourceSummaries, articleOutput, preAudit, result>>

\* a stage 6 that renders the article it had before the audit
Stage6Stale ==
    /\ pc = "stage6"
    /\ result' = [article |-> articleOutput,
                  markdown |-> renderMarkdown(IF preAudit = Undefined
                                              THEN articleOutput ELSE preAudit),
                  intent |-> intent,
                  sources |-> IF options.includeReferences THEN sourceSummaries ELSE <<>>]
    /\ pc' = "done"
    /\ stages' = stages \o <<"Render", "Done">>
    /\ UNCHANGED <<route, store, directVars, parseIn, parseOut, retrIn, retrOut, options, calls, intent, docs,
                   sourceSummaries, articleOutput, preAudit>>

\* a stage 6 that returns the source summaries whatever includeReferences is
Stage6WithSources ==
    /\ pc = "stage6"
    /\ result' = [article |-> articleOutput,
                  markdown |-> renderMarkdown(articleOutput),
                  intent |-> intent,
                  sources |-> sourceSummaries]
    /\ pc' = "done"
    /\ stages' = stages \o <<"Render", "Done">>
    /\ UNCHANGED <<route, store, directVars, parseIn, parseOut, retrIn, retrOut, options, calls, intent, docs,
                   sourceSummaries, articleOutput, preAudit>>

\* stage 6: the rendering, and the return of the bundle
Stage6 ==
    /\ pc = "stage6"
    /\ result' = [article |-> articleOutput,
                  markdown |-> renderMarkdown(articleOutput),
                  intent |-> intent,
                  sources |-> IF options.includeReferences THEN sourceSummaries ELSE <<>>]
    /\ pc' = "done"
    /\ stages' = stages \o <<"Render", "Done">>
    /\ UNCHANGED <<route, store, directVars, parseIn, parseOut, retrIn, retrOut, options, calls, intent, docs,
                   sourceSummaries, articleOutput, preAudit>>

Next == Stage1 \/ Stage2 \/ Stage4 \/ Stage5 \/ Stage5Skipped \/ Stage6

Spec == InitPipeline /\ [][Next]_vars

\* C1: every run of humanitiesPipeline reaches Done and returns a bundle,
\* whatever each external generation call does; no failure of a stage makes
\* the pipeline raise to its caller.
C1_NeverRaises == pc # "raised"

\* the generation call answered with a text
GenerationAnswered == Len(calls) >= 2 /\ ~calls[2].threw

\* the answer of the generation call holds no fence and is not JSON, or is
\* JSON of a value that is no ArticleOutput
GenerationMalformed ==
    /\ GenerationAnswered
    /\ \/ JSONparse(calls[2].text).threw /\ IndexOf(calls[2].text, FENCE, 1) = 0
       \/ /\ ~JSONparse(calls[2].text).threw
          /\ validateArticleSchema(JSONparse(calls[2].text).v) # "ok"

\* C2: when the generation call returns text that is not valid JSON or that
\* violates the article schema, the pipeline does not raise and goes on with
\* the fallback ArticleOutput built from that raw text.
C2_MalformedGenerationRecovered ==
    GenerationMalformed =>
        /\ pc # "raised"
        /\ pc = "stage5" => articleOutput = FallbackArticle(calls[2].text)

\* stage 5 ran its audit call
AuditRan == Len(calls) = 3

\* what callLLM made of the audit call
AuditResponse == callLLM("json", calls[3])

\* C4: when the audit call returns output that fails the validation of the
\* article schema, the article of the final result is exactly the article
\* from before the audit.
C4_InvalidAuditDiscarded ==
    (pc = "done" /\ AuditRan /\ ~AuditResponse.threw
     /\ validateArticleSchema(JSONparse(AuditResponse.v).v) # "ok")
        => result.article = preAudit

\* C5: when the audit call throws (a call that answered with text that is
\* not JSON included), the pipeline still completes and the article of the
\* final result is exactly the article from before the audit.
C5_ThrowingAuditKeepsArticle ==
    (AuditRan /\ AuditResponse.threw) =>
        /\ pc \in {"stage6", "done"}
        /\ articleOutput = preAudit
        /\ pc = "stage6" => ENABLED Stage6
        /\ pc = "done" => result.article = preAudit

\* a run is done whose audit call answered with text that is not JSON
C5_Witness ==
    /\ pc = "done"
    /\ AuditRan
    /\ ~calls[3].threw
    /\ JSONparse(calls[3].text).threw
    /\ AuditResponse.threw
    /\ result.article = preAudit

\* C6: whenever the pipeline returns, the bundle is complete: article
\* satisfies the ArticleOutput schema, markdown is renderMarkdown of that
\* same article, intent is the intent the classification stage produced,
\* and no field is null or missing.
C6_BundleComplete ==
    pc = "done" =>
        /\ DOMAIN result = {"article", "markdown", "intent", "sources"}
        /\ validateArticleSchema(result.article) = "ok"
        /\ result.markdown = renderMarkdown(result.article)
        /\ result.intent = analyzeHumanitiesIntent(options.question, calls[1]).v
        /\ result.intent.t = "obj"
        /\ result.markdown \in Seq(STRING)
        /\ \A i \in 1..Len(result.sources) : result.sources[i] \in Seq(STRING)

\* a run returned after an audit that replaced the article, with sources
C6_Witness ==
    /\ pc = "done"
    /\ AuditRan
    /\ result.article # preAudit
    /\ Len(result.sources) > 0
    /\ Len(result.markdown) > 0

\* C19: the sources of the returned bundle are empty when includeReferences
\* is false or the retrieval returned no document; otherwise there is exactly
\* one summary per retrieved document, in the order of the retrieval.
C19_SourcesFollowRetrieval ==
    pc = "done" =>
        IF ~options.includeReferences \/ docs = <<>>
        THEN result.sources = <<>>
        ELSE /\ Len(result.sources) = Len(docs)
             /\ \A i \in 1..Len(docs) :
                   result.sources[i] = summarizeHumanitiesDocs(<<docs[i]>>)[1]

\* a bundle returned with references for a retrieval of several documents
\* whose summaries differ
C19_Witness ==
    /\ pc = "done"
    /\ options.includeReferences
    /\ Len(docs) >= 2
    /\ Len(result.sources) = Len(docs)
    /\ result.sources[1] # result.sources[2]

\* the external calls of a run, by stage: the classification call is the first
\* call, the generation call the second and the audit call the third
CallsOfStages ==
    /\ Len(calls) <= 3
    /\ Len(calls) = 3 => options.enableAuditor

\* C20: in one pipeline run each external call is attempted at most once per
\* stage and never retried: at most one classification call, exactly one
\* generation call and at most one audit call (none when enableAuditor is
\* false), so at most three external calls.
C20_OneCallPerStage ==
    /\ CallsOfStages
    /\ pc \in {"done", "raised"} => Len(calls) >= 2

\* s is the beginning of t
IsPrefix(s, t) == Len(s) <= Len(t) /\ \A k \in 1..Len(s) : s[k] = t[k]

\* the stages of the spec's state list, for a run with the options
SpecStageOrder ==
    <<"ClassifyIntent", "Retrieve", "AssembleContext", "Generate">>
    \o (IF options.enableAuditor THEN <<"Audit">> ELSE <<>>)
    \o <<"Validate", "Render", "Done">>

AuditReturned == Len(calls) >= 3 /\ ~callLLM("json", calls[3]).threw

\* the stages of a run with the options, the audit call returning or not
CodeStageOrder(audited) ==
    <<"ClassifyIntent", "Retrieve", "AssembleContext", "Generate", "Validate">>
    \o (IF options.enableAuditor
        THEN <<"Audit">> \o (IF audited THEN <<"Validate">> ELSE <<>>)
        ELSE <<>>)
    \o <<"Render", "Done">>

GenNever == [threw |-> FALSE, text |-> <<>>, settles |-> FALSE]

\* callLLM awaits generateText, which is given no timeout and no abort
\* signal: the stage that made the call waits
CallNeverAnswers ==
    /\ \/ pc \in {"stage1", "stage4"}
       \/ pc = "stage5" /\ options.enableAuditor
    /\ calls' = Append(calls, GenNever)
    /\ pc' = "awaiting"
    /\ UNCHANGED stages
    /\ UNCHANGED <<route, store, directVars, parseIn, parseOut, retrIn, retrOut, options, intent,
                   docs, sourceSummaries, articleOutput, preAudit, result>>

NextLive == Next \/ CallNeverAnswers

\* a continuation runs once the promise it awaits has settled; nothing in
\* callLLM settles it otherwise
SpecLive == InitPipeline /\ [][NextLive]_vars

\* C21: an external call that never answers does not block the pipeline
\* forever: a run that waits for a call can always take a further step (the
\* timeout, handled like a thrown error of that stage).
C21_AwaitedCallIsBounded == pc = "awaiting" => ENABLED NextLive

\* the classification of stage 1 has run on the outcome calls[1]
ClassificationDone == Len(calls) >= 1

\* C14: for every question (the empty one included) and every behaviour of
\* the classification call, the intent analyzeHumanitiesIntent returns has a
\* non-empty list of cultures_involved and a primary_discipline that is one
\* of linguistics, literature, cultural_studies.
C14_IntentWellFormed ==
    ClassificationDone =>
        /\ IsArr(Prop(intent, "cultures_involved"))
        /\ Len(Prop(intent, "cultures_involved").a) > 0
        /\ Prop(intent, "primary_discipline")
              \in {StrOf("linguistics"), StrOf("literature"), StrOf("cultural_studies")}

\* the classification call threw, answered text that is not JSON, or
\* answered a structure without primary_discipline or cultures_involved
ClassificationUnusable ==
    \E response \in {callLLM("json", calls[1])} :
        \/ response.threw
        \/ \E parsed \in {JSONparse(response.v).v} :
              \/ ~IsObj(parsed)
              \/ Prop(parsed, "primary_discipline") = Undefined
              \/ Prop(parsed, "cultures_involved") = Undefined

\* C15: analyzeHumanitiesIntent never raises, and when the classification
\* call throws, answers unparsable text or answers a structure that lacks
\* primary_discipline or cultures_involved, its result is the heuristic
\* fallback intent of the question.
C15_ClassificationFailureFallsBack ==
    ClassificationDone =>
        /\ ~analyzeHumanitiesIntent(options.question, calls[1]).threw
        /\ ClassificationUnusable => intent = createFallbackIntent(options.question)

\* the call answered JSON that lacks a required field and the fallback intent
\* was returned
C15_Witness ==
    /\ ClassificationDone
    /\ ~callLLM("json", calls[1]).threw
    /\ ClassificationUnusable
    /\ intent = createFallbackIntent(options.question)

\* the question of the example, asked while the classification call throws
SudahMenikahFallback ==
    /\ ClassificationDone
    /\ calls[1].threw
    /\ options.question = <<"Why", "does", "'Sudah", "menikah?'", "sound", "polite", "in",
                             "Indonesian", "but", "intrusive", "in", "English?">>

PragmaticsLinguistics ==
    /\ Prop(intent, "primary_discipline") = StrOf("linguistics")
    /\ \E i \in 1..Len(Prop(intent, "subfields").a) :
          Prop(intent, "subfields").a[i] = StrOf("pragmatics")

\* C16 as stated: with the classification call failing, the question "Why
\* does 'Sudah menikah?' sound polite in Indonesian but intrusive in
\* English?" yields cultures_involved [General], primary_discipline
\* linguistics and subfields that include pragmatics.
C16_SudahMenikahGeneral ==
    SudahMenikahFallback =>
        /\ Prop(intent, "cultures_involved") = StrArr(<<"General">>)
        /\ PragmaticsLinguistics

\* C16: with the classification call failing, that question yields
\* cultures_involved [Indonesia, English], primary_discipline linguistics
\* and subfields that include pragmatics.
C16_SudahMenikahIndonesiaEnglish ==
    SudahMenikahFallback =>
        /\ Prop(intent, "cultures_involved") = StrArr(<<"Indonesia", "English">>)
        /\ PragmaticsLinguistics

\* the fallback intent of that question was produced and is a comparison
C16_Witness ==
    /\ SudahMenikahFallback
    /\ intent = createFallbackIntent(options.question)
    /\ Prop(intent, "requires_comparison") = JBool(TRUE)

\* ------------------------------------------------------------------------
\* app/api/chat/route.ts: POST
\* ------------------------------------------------------------------------
\* request bodies: not JSON, no message, one message
Requests ==
    {[json |-> FALSE, messages |-> <<>>], [json |-> TRUE, messages |-> <<>>]}
    \cup {[json |-> TRUE, messages |-> <<q>>] : q \in Questions}

\* what the generation call of culturalPipeline may answer
ReasoningAnswers ==
    { JSONstringify(JObj(<<[k |-> <<"answer">>, v |-> StrOf("polite")],
                           [k |-> <<"references_used">>, v |-> StrArr(<<"r1">>)]>>), 0),
      JSONstringify(JObj(<<[k |-> <<"answer">>, v |-> StrOf("polite")]>>), 0),
      JSONstringify(JObj(<<[k |-> <<"references_used">>, v |-> JNum(1)]>>), 0),
      JSONstringify(JNull, 0),
      JSONstringify(JNum(1), 0),
      <<"not", SP, "json", SP, "at", SP, "all">> }

ReasoningOutcomes == {GenThrows} \cup {GenText(t) : t \in ReasoningAnswers}

Error500 == [status |-> 500, type |-> "error"]

InitRoute ==
    /\ store = HUMANITIES_KNOWLEDGE_BASE
    /\ DirectIdle
    /\ parseIn = <<>>
    /\ parseOut = Idle
    /\ retrIn = Idle
    /\ retrOut = Idle
    /\ PipeIdle
    /\ route \in [pc : {"received"}, request : Requests, apiKey : BOOLEAN,
                  USE_CULTURAL_REASONING : BOOLEAN, intent : {Undefined},
                  sourceSummaries : {<<>>}, reasoningOutput : {Undefined},
                  pipeline : {"not run"}, legacy : {"not run"}, response : {Undefined}]

\* the question culturalPipeline is given
UserQuestion == route.request.messages[Len(route.request.messages)]

\* POST up to the choice of the strategy
RouteReceive ==
    /\ route.pc = "received"
    /\ route' =
         IF ~route.request.json \/ ~route.apiKey \/ Len(route.request.messages) = 0
         THEN [route EXCEPT !.pc = "responded", !.response = Error500]
         ELSE [route EXCEPT !.pc = IF route.USE_CULTURAL_REASONING THEN "stage1" ELSE "legacy"]
    /\ UNCHANGED <<store, directVars, parseIn, parseOut, retrIn, retrOut, pipeVars>>

\* a POST whose inner try has no catch: the error goes to the outer catch
PipelineThrewUncaught(stage) ==
    [route EXCEPT !.pc = "responded", !.pipeline = stage, !.response = Error500]

\* the catch of the inner try of POST: fall through to the legacy mode
PipelineThrew(stage) == [route EXCEPT !.pc = "legacy", !.pipeline = stage]

\* culturalPipeline, stage 1: the intent in its legacy format
RouteStage1 ==
    /\ route.pc = "stage1"
    /\ \E gen \in IntentOutcomes :
          route' = [route EXCEPT !.pc = "stage2", !.intent = buildRagQuery(UserQuestion, gen)]
    /\ UNCHANGED <<store, directVars, parseIn, parseOut, retrIn, retrOut, pipeVars>>

\* culturalPipeline, stage 2: retrieval, context and source summaries
RouteStage2 ==
    /\ route.pc = "stage2"
    /\ \E retrieved \in {retrieveDocuments(store, route.intent, 3)} :
          route' = IF retrieved.threw THEN PipelineThrew("retrieval")
                   ELSE [route EXCEPT !.pc = "stage3",
                                      !.sourceSummaries = summarizeSources(retrieved.v)]
    /\ UNCHANGED <<store, directVars, parseIn, parseOut, retrIn, retrOut, pipeVars>>

\* culturalPipeline, stage 3: the generation call, the parse of its answer
\* and the references added to it (includeReferences is true)
RouteStage3 ==
    /\ route.pc = "stage3"
    /\ \E gen \in ReasoningOutcomes :
          \E response \in {callLLM("json", gen)} :
             IF response.threw THEN route' = PipelineThrew("generation")
             ELSE \E parsed \in {parseLLMJson(response.v)} :
                    \E withRefs \in {IF parsed.threw THEN Thrown
                                     ELSE IF Len(route.sourceSummaries) > 0
                                     THEN AddReferences(parsed.v, route.sourceSummaries)
                                     ELSE parsed} :
                       route' = IF withRefs.threw THEN PipelineThrew("references")
                                ELSE [route EXCEPT !.pc = "stage4",
                                                   !.reasoningOutput = withRefs.v]
    /\ UNCHANGED <<store, directVars, parseIn, parseOut, retrIn, retrOut, pipeVars>>

\* culturalPipeline, stage 4 (enableAuditor is true), its return, and the
\* formatting of what it returned
RouteStage4 ==
    /\ route.pc = "stage4"
    /\ \E gen \in ReasoningOutcomes :
          \E reasoning \in {AuditedReasoning(route.reasoningOutput, gen)} :
             route' = IF formatReasoningOutputThrows(reasoning)
                      THEN PipelineThrew("format")
                      ELSE [route EXCEPT !.pc = "responded", !.pipeline = "done",
                                         !.reasoningOutput = reasoning,
                                         !.response = [status |-> 200,
                                                       type |-> "cultural_reasoning",
                                                       data |-> reasoning]]
    /\ UNCHANGED <<store, directVars, parseIn, parseOut, retrIn, retrOut, pipeVars>>

\* the legacy mode of POST: streamText returns a stream, or throws into the
\* outer catch
RouteLegacy ==
    /\ route.pc = "legacy"
    /\ \E outcome \in {"stream", "threw"} :
          route' = [route EXCEPT !.pc = "responded", !.legacy = outcome,
                                 !.response = IF outcome = "threw" THEN Error500
                                              ELSE [status |-> 200, type |-> "stream"]]
    /\ UNCHANGED <<store, directVars, parseIn, parseOut, retrIn, retrOut, pipeVars>>

NextRoute ==
    RouteReceive \/ RouteStage1 \/ RouteStage2 \/ RouteStage3 \/ RouteStage4 \/ RouteLegacy

SpecRoute == InitRoute /\ [][NextRoute]_vars

VALID_ERAS == {"classical", "modern", "contemporary"}
VALID_STANCES == {"descriptive", "prescriptive", "critical"}
VALID_CONFIDENCES == {"high", "medium", "low"}
VALID_SOURCE_TYPES == {"journal", "book", "ethnography", "analysis", "few_shot"}

\* { subfield: [], ..., source_type: 'analysis', ...partial }
createDocument(partial) ==
    LET defaults == [subfield |-> <<>>, culture |-> <<>>, context |-> <<>>,
                     era |-> "contemporary", stance |-> "descriptive",
                     confidence |-> "medium", source_type |-> "analysis"]
    IN [k \in DOMAIN defaults \cup DOMAIN partial |->
           IF k \in DOMAIN partial THEN partial[k] ELSE defaults[k]]

\* documents the module may be written with: the four required fields, with
\* or without a discipline tag, and some of the optional fields
DocPartials ==
    { [k \in {"id", "text", "discipline", "source"} \cup DOMAIN extra |->
          CASE k = "id" -> "doc-01"
            [] k = "text" -> <<"text">>
            [] k = "discipline" -> d
            [] k = "source" -> "Notes"
            [] OTHER -> extra[k]] :
        d \in {<<>>, <<"linguistics">>},
        extra \in {[x \in {} |-> 0], [era |-> "future"], [stance |-> "polemic"],
                   [confidence |-> "certain"], [source_type |-> "blog"],
                   [era |-> "modern", confidence |-> "high"]} }

\* most documents in a store being loaded
MaxLoaded == 2

InitLoad ==
    /\ store = <<>>
    /\ loadIn \in {[pc |-> "load", partials |-> ps] :
                     ps \in UNION {[1..n -> DocPartials] : n \in 1..MaxLoaded}}
    /\ op = Idle
    /\ scoreIn = Idle
    /\ scoreOut = Idle
    /\ callIn = Idle
    /\ callOut = Idle
    /\ parseIn = <<>>
    /\ parseOut = Idle
    /\ retrIn = Idle
    /\ retrOut = Idle
    /\ PipeIdle
    /\ route = Idle

\* the module is evaluated: every document literal goes through
\* createDocument and the lists are spread into HUMANITIES_KNOWLEDGE_BASE
LoadStore ==
    /\ loadIn.pc = "load"
    /\ store' = [i \in 1..Len(loadIn.partials) |-> createDocument(loadIn.partials[i])]
    /\ loadIn' = [loadIn EXCEPT !.pc = "loaded"]
    /\ UNCHANGED <<op, scoreIn, scoreOut, callVars, parseIn, parseOut, retrIn, retrOut, pipeVars, route>>

SpecLoad == InitLoad /\ [][LoadStore]_vars

\* the document has a discipline tag and its era, stance, confidence and
\* source_type are in their vocabularies
TaggedInVocabulary(doc) ==
    /\ Len(doc.discipline) > 0
    /\ doc.era \in VALID_ERAS
    /\ doc.stance \in VALID_STANCES
    /\ doc.confidence \in VALID_CONFIDENCES
    /\ doc.source_type \in VALID_SOURCE_TYPES

\* C17: a document with no discipline tag, or with an era, stance,
\* confidence or source_type outside its vocabulary, is rejected when the
\* store is loaded: no such document is in the loaded store.
C17_InvalidDocumentRejected ==
    loadIn.pc = "loaded" => \A i \in 1..Len(store) : TaggedInVocabulary(store[i])

\* ------------------------------------------------------------------------
\* Retrievals and lookups called one after another on the loaded store
\* ------------------------------------------------------------------------
\* calls made in a row
MaxStoreOps == 2

StoreIntents ==
    { MkIntent(c, d, <<>>, <<"pragmatics">>, <<"politeness", "indirectness">>, "general",
               FALSE, "high") :
        c \in {<<"General">>, <<"Indonesia", "English">>, <<"Atlantis">>},
        d \in {"linguistics", "literature", "cultural_studies", "philosophy"} }

\* const confScore = { high: 3, medium: 2, low: 1 }
confScore == [high |-> 3, medium |-> 2, low |-> 1]

\* the documents of kb with the discipline, by falling confidence
ByConfidence(kb, discipline) ==
    LET filtered == SelectSeq(kb, LAMBDA doc : Includes(doc.discipline, StrOf(discipline)))
        sorted == SortByScore([i \in 1..Len(filtered) |->
                                  [doc |-> filtered[i], score |-> confScore[filtered[i].confidence]]])
    IN [i \in 1..Len(sorted) |-> sorted[i].doc]

RECURSIVE retrieveForComparison(_, _, _, _)
retrieveForComparison(kb, cultures, topic, maxPerCulture) ==
    IF cultures = <<>> THEN <<>>
    ELSE LET found == SelectSeq(kb, LAMBDA doc :
                         /\ SomeIncludes(doc.culture, doc.cultureWords, StrOf(cultures[1]))
                         /\ SomeIncludes(<<doc.id>>, doc.textWords, StrOf(topic)))
         IN Slice(found, 1, Min(maxPerCulture, Len(found)))
            \o retrieveForComparison(kb, Tail(cultures), topic, maxPerCulture)

InitStore ==
    /\ store = HUMANITIES_KNOWLEDGE_BASE
    /\ op = [n |-> 0, name |-> "load", args |-> <<>>, result |-> <<>>]
    /\ loadIn = Idle
    /\ scoreIn = Idle
    /\ scoreOut = Idle
    /\ callIn = Idle
    /\ callOut = Idle
    /\ parseIn = <<>>
    /\ parseOut = Idle
    /\ retrIn = Idle
    /\ retrOut = Idle
    /\ PipeIdle
    /\ route = Idle

\* hybridRetrieve: map, filter and the diversification build new arrays, and
\* sort orders the filtered one
HybridRetrieve ==
    /\ op.n < MaxStoreOps
    /\ \E h \in StoreIntents :
       \E o \in {[x \in {} |-> 0], [maxResults |-> 2, minConfidence |-> "high"]} :
       \E r \in {hybridRetrieve(store, <<"">>, h, o)} :
          op' = [n |-> op.n + 1, name |-> "hybridRetrieve", args |-> <<h, o>>, result |-> r.v]
    /\ store' = store
    /\ UNCHANGED <<loadIn, scoreIn, scoreOut, callVars, parseIn, parseOut, retrIn, retrOut, pipeVars, route>>

RetrieveDocuments ==
    /\ op.n < MaxStoreOps
    /\ \E h \in StoreIntents :
       \E r \in {retrieveDocuments(store, LegacyIntentOf(h), 3)} :
          op' = [n |-> op.n + 1, name |-> "retrieveDocuments", args |-> <<h>>, result |-> r.v]
    /\ store' = store
    /\ UNCHANGED <<loadIn, scoreIn, scoreOut, callVars, parseIn, parseOut, retrIn, retrOut, pipeVars, route>>

RetrieveForComparison ==
    /\ op.n < MaxStoreOps
    /\ \E cultures \in {<<>>, <<"Indonesia", "English">>, <<"Japanese">>},
          topic \in {"politeness", "silence"}, maxPerCulture \in 1..2 :
          op' = [n |-> op.n + 1, name |-> "retrieveForComparison",
                 args |-> <<cultures, topic, maxPerCulture>>,
                 result |-> retrieveForComparison(store, cultures, topic, maxPerCulture)]
    /\ store' = store
    /\ UNCHANGED <<loadIn, scoreIn, scoreOut, callVars, parseIn, parseOut, retrIn, retrOut, pipeVars, route>>

\* a retrieveByDiscipline whose sort is applied to the store itself
RetrieveByDisciplineSortingStore ==
    /\ op.n < MaxStoreOps
    /\ \E discipline \in {"linguistics", "literature", "cultural_studies"}, maxResults \in {1, 5, 15} :
       \E sorted \in {ByConfidence(store, discipline)} :
          /\ op' = [n |-> op.n + 1, name |-> "retrieveByDiscipline",
                    args |-> <<discipline, maxResults>>,
                    result |-> Slice(sorted, 1, Min(maxResults, Len(sorted)))]
          /\ store' = sorted
    /\ UNCHANGED <<loadIn, scoreIn, scoreOut, callVars, parseIn, parseOut, retrIn, retrOut, pipeVars, route>>

\* retrieveByDiscipline: filter returns a new array, which sort then orders
\* in place and slice copies
RetrieveByDiscipline ==
    /\ op.n < MaxStoreOps
    /\ \E discipline \in {"linguistics", "literature", "cultural_studies"}, maxResults \in {1, 5, 15} :
       \E sorted \in {ByConfidence(store, discipline)} :
          op' = [n |-> op.n + 1, name |-> "retrieveByDiscipline",
                    args |-> <<discipline, maxResults>>,
                 result |-> Slice(sorted, 1, Min(maxResults, Len(sorted)))]
    /\ store' = store
    /\ UNCHANGED <<loadIn, scoreIn, scoreOut, callVars, parseIn, parseOut, retrIn, retrOut, pipeVars, route>>

\* getDocumentsByDiscipline: a filter that compares in lower case
GetDocumentsByDiscipline ==
    /\ op.n < MaxStoreOps
    /\ \E discipline \in {"linguistics", "Literature", "philosophy"} :
       \E lower \in {IF discipline = "Literature" THEN "literature" ELSE discipline} :
          op' = [n |-> op.n + 1, name |-> "getDocumentsByDiscipline", args |-> <<discipline>>,
                 result |-> SelectSeq(store, LAMBDA doc : Includes(doc.discipline, StrOf(lower)))]
    /\ store' = store
    /\ UNCHANGED <<loadIn, scoreIn, scoreOut, callVars, parseIn, parseOut, retrIn, retrOut, pipeVars, route>>

\* getDocumentsByCulture: a filter
GetDocumentsByCulture ==
    /\ op.n < MaxStoreOps
    /\ \E culture \in {"Indonesia", "English", "Japanese", "Atlantis"} :
          op' = [n |-> op.n + 1, name |-> "getDocumentsByCulture", args |-> <<culture>>,
                 result |-> SelectSeq(store, LAMBDA doc :
                               SomeIncludes(doc.culture, doc.cultureWords, StrOf(culture)))]
    /\ store' = store
    /\ UNCHANGED <<loadIn, scoreIn, scoreOut, callVars, parseIn, parseOut, retrIn, retrOut, pipeVars, route>>

NextStore ==
    \/ HybridRetrieve
    \/ RetrieveDocuments
    \/ RetrieveForComparison
    \/ RetrieveByDiscipline
    \/ GetDocumentsByDiscipline
    \/ GetDocumentsByCulture

SpecStore == InitStore /\ [][NextStore]_vars

\* C18: no sequence of retrievals and lookups (hybridRetrieve,
\* retrieveDocuments, retrieveForComparison, retrieveByDiscipline, the
\* knowledge-base lookups) changes the document store: after every call its
\* documents, their fields and their order are those of load time.
C18_StoreNeverChanges ==
    (op # Idle) => store = HUMANITIES_KNOWLEDGE_BASE

\* two calls were made, the last a retrieveByDiscipline whose sort moved a
\* document of high confidence before one of medium confidence that precedes
\* it in the store
C18_Witness ==
    /\ op # Idle
    /\ op.n = 2
    /\ op.name = "retrieveByDiscipline"
    /\ \E i \in 1..Len(op.result) : op.result[i].confidence = "medium"
    /\ \E i, j \in 1..Len(store) :
          /\ i < j
          /\ store[i].confidence = "medium"
          /\ store[j].confidence = "high"
          /\ \E a, b \in 1..Len(op.result) :
                a < b /\ op.result[a] = store[j] /\ op.result[b] = store[i]

\* ------------------------------------------------------------------------
\* The audit stage and renderMarkdown called on an article, several times
\* ------------------------------------------------------------------------
\* an article whose paragraph quotes a fenced block that holds a number
ArticleN ==
    Article(JStr(<<"a">>),
            JArr(<<Section(JStr(<<"t">>), JStr(<<FENCE, "1", FENCE>>), JArr(<<>>))>>),
            JStr(<<"c">>))

\* schema-valid articles: the sample articles and what parseArticleResponse
\* makes of the sample texts
ArticleInputs == ValidArticles \cup {ArticleN} \cup {parseArticleResponse(t).v : t \in Texts}

\* most audit calls and most renderMarkdown calls on one article
MaxAudits == 2
MaxRenders == 2

\* the collaborator returns the JSON it was shown, unchanged
Echo(article) == GenText(JSONstringify(article, 2))

InitArticle ==
    /\ callIn \in {[pc |-> "article", article |-> a] : a \in ArticleInputs}
    /\ callOut = [audits |-> <<>>, texts |-> <<>>, md |-> <<>>]
    /\ store = <<>>
    /\ loadIn = Idle
    /\ op = Idle
    /\ scoreIn = Idle
    /\ scoreOut = Idle
    /\ parseIn = <<>>
    /\ parseOut = Idle
    /\ retrIn = Idle
    /\ retrOut = Idle
    /\ PipeIdle
    /\ route = Idle

\* the article the next audit is shown: let articleOutput
CurrentArticle ==
    IF callOut.audits = <<>> THEN callIn.article ELSE callOut.audits[Len(callOut.audits)]

\* the audit stage, its collaborator echoing
AuditCall ==
    /\ callIn # Idle
    /\ Len(callOut.audits) < MaxAudits
    /\ callOut' = [callOut EXCEPT
                     !.audits = Append(@, AuditedArticle(CurrentArticle, Echo(CurrentArticle)))]
    /\ UNCHANGED <<callIn, store, loadIn, op, scoreIn, scoreOut, parseIn, parseOut, retrIn, retrOut,
                   pipeVars, route>>

\* a renderMarkdown whose md outlives the call
RenderCallAccumulating ==
    /\ callIn # Idle
    /\ Len(callOut.texts) < MaxRenders
    /\ \E md \in {callOut.md \o renderMarkdown(callIn.article)} :
          callOut' = [callOut EXCEPT !.md = md, !.texts = Append(@, md)]
    /\ UNCHANGED <<callIn, store, loadIn, op, scoreIn, scoreOut, parseIn, parseOut, retrIn, retrOut,
                   pipeVars, route>>

\* renderMarkdown(data): md starts empty in every call and data is only read
RenderCall ==
    /\ callIn # Idle
    /\ Len(callOut.texts) < MaxRenders
    /\ \E md \in {renderMarkdown(callIn.article)} :
          callOut' = [callOut EXCEPT !.md = md, !.texts = Append(@, md)]
    /\ UNCHANGED <<callIn, store, loadIn, op, scoreIn, scoreOut, parseIn, parseOut, retrIn, retrOut,
                   pipeVars, route>>

NextArticle == AuditCall \/ RenderCall

SpecArticle == InitArticle /\ [][NextArticle]_vars

\* C22: the audit stage run twice on a schema-valid article, its collaborator
\* returning its input unchanged, gives the same article as run once, and
\* that article equals the article before the audit.
C22_EchoedAuditKeepsArticle ==
    Len(callOut.audits) = MaxAudits =>
        /\ callOut.audits[2] = callOut.audits[1]
        /\ callOut.audits[1] = callIn.article

\* the part of C22 that holds: a second echoed audit changes nothing more
C22_SecondAuditChangesNothing ==
    Len(callOut.audits) = MaxAudits => callOut.audits[2] = callOut.audits[1]

RULE == "<rule>"
HEADLINE == "INTERPRETIVE GROUNDING CONTEXT"
GUIDELINES == "EPISTEMIC GUIDELINES FOR REASONING"
REFERENCE == "<box> Reference "
NO_REFERENCES == "No specific scholarly references found for this query."

\* the string a JavaScript value becomes in a template or a join
TextOf(v) ==
    CASE v.t = "str" -> v.s
      [] v.t = "undefined" -> <<"undefined">>
      [] v.t = "null" -> <<"null">>
      [] v.t = "bool" -> IF v.b THEN <<"true">> ELSE <<"false">>
      [] v.t = "num" -> <<ToString(v.n)>>
      [] OTHER -> <<"[object]">>

RECURSIVE JoinPieces(_, _)
\* pieces.join(sep)
JoinPieces(pieces, sep) ==
    IF pieces = <<>> THEN <<>>
    ELSE IF Len(pieces) = 1 THEN pieces[1]
    ELSE pieces[1] \o sep \o JoinPieces(Tail(pieces), sep)

\* labels[discipline] || discipline of a value of the intent
DisciplineLabelOf(v) ==
    IF IsStr(v) /\ Len(v.s) = 1 THEN <<getDisciplineLabel(v.s[1])>> ELSE TextOf(v)

getConfidenceLabel(confidence) ==
    CASE confidence = "high" -> "*** High (Well-established scholarly consensus)"
      [] confidence = "medium" -> "**. Medium (Generally accepted interpretation)"
      [] confidence = "low" -> "*.. Low (Emerging or contested perspective)"
      [] OTHER -> confidence

getStanceLabel(stance) ==
    CASE stance = "descriptive" -> "Descriptive (observing patterns)"
      [] stance = "prescriptive" -> "Prescriptive (recommending practices)"
      [] stance = "critical" -> "Critical (analyzing power dynamics)"
      [] OTHER -> stance

getContextHeader(i) ==
    LET cultures == Prop(i, "cultures_involved").a
        culturesLabel == IF Len(cultures) > 0
                         THEN JoinPieces([k \in 1..Len(cultures) |-> TextOf(cultures[k])], <<", ">>)
                         ELSE <<"general">>
    IN <<NL, RULE, NL, HEADLINE, NL, "Academic Focus: ">>
       \o DisciplineLabelOf(Prop(i, "primary_discipline"))
       \o <<NL, "Cultural Context: ">> \o culturesLabel
       \o <<NL, RULE, NL, NL, "The following scholarly perspectives ... change over time)", NL>>

\* a formatDocument that numbers the references as docs.map numbers them
formatDocumentFromZero(doc, index) ==
    <<NL, REFERENCE, ToString(index), NL, "Source: ", doc.source, doc.source_type, NL, "<box end>", NL, NL,
      "text of", doc.id, NL>>

formatDocument(doc, index) ==
    <<NL, REFERENCE, ToString(index + 1), NL,
      "Source: ", doc.source, " (", doc.source_type, ")", NL,
      "Discipline: ">> \o JoinPieces([k \in 1..Len(doc.discipline) |-> <<doc.discipline[k]>>], <<", ">>)
    \o <<NL, "Subfield: ">> \o JoinPieces([k \in 1..Len(doc.subfield) |-> <<doc.subfield[k]>>], <<", ">>)
    \o <<NL, "Culture: ">> \o JoinPieces([k \in 1..Len(doc.culture) |-> <<doc.culture[k]>>], <<", ">>)
    \o <<NL, "Era: ", doc.era, NL, "Stance: ", getStanceLabel(doc.stance), NL,
         "Confidence: ", getConfidenceLabel(doc.confidence), NL, "<box end>", NL, NL,
         "text of", doc.id, NL>>

AVOID_HIERARCHY == "When comparing cultures, avoid hierarchical judgments"
TENDENCIES == "Linguistic patterns describe tendencies, not absolute rules"
DYNAMIC_DIVERSE == "Cultural practices are dynamic and internally diverse"
PERSPECTIVES == "Treat these sources as perspectives, not definitive answers"
VARIATION == "Acknowledge variation within cultures"

getEpistemicReminder(i) ==
    LET reminders ==
            <<<<PERSPECTIVES>>, <<VARIATION>>,
              <<"Ground claims in the specific cultural contexts referenced">>>>
            \o (IF Truthy(Prop(i, "requires_comparison"))
                THEN <<<<AVOID_HIERARCHY>>,
                       <<"Note both similarities and differences without valorizing either">>>>
                ELSE <<>>)
            \o (IF Prop(i, "primary_discipline") = StrOf("linguistics")
                THEN <<<<TENDENCIES>>>> ELSE <<>>)
            \o (IF Prop(i, "primary_discipline") = StrOf("cultural_studies")
                THEN <<<<DYNAMIC_DIVERSE>>>> ELSE <<>>)
    IN <<NL, RULE, NL, GUIDELINES, NL, RULE, NL>> \o JoinPieces(reminders, <<NL>>)
       \o <<NL, RULE, NL>>

getNoDocumentsMessage(i) ==
    <<NL, NO_REFERENCES, NL, "Reason from general principles of ">>
    \o DisciplineLabelOf(Prop(i, "primary_discipline"))
    \o <<".", NL, NL, "When reasoning without specific sources: ... universal truths", NL>>

assembleInterpretiveContext(ds, i) ==
    IF Len(ds) = 0 THEN getNoDocumentsMessage(i)
    ELSE Trim(<<NL>> \o getContextHeader(i) \o <<NL, NL>>
              \o JoinPieces([k \in 1..Len(ds) |-> formatDocument(ds[k], k - 1)],
                            <<NL, NL, "---", NL, NL>>)
              \o <<NL, NL>> \o getEpistemicReminder(i) \o <<NL>>)

\* most documents handed to assembleInterpretiveContext
MaxContextDocs == 3

\* lists of documents of the knowledge base, in any order, without repeats
ContextDocLists ==
    {<<>>} \cup
    UNION {{[k \in 1..n |-> HUMANITIES_KNOWLEDGE_BASE[f[k]]] :
               f \in {g \in [1..n -> 1..4] : \A a, b \in 1..n : a # b => g[a] # g[b]}} :
           n \in 1..MaxContextDocs}

\* an intent with some other value as its requires_comparison
WithComparison(i, v) ==
    JObj([k \in 1..Len(i.o) |->
            IF i.o[k].k = <<"requires_comparison">> THEN [k |-> i.o[k].k, v |-> v] ELSE i.o[k]])

\* intents that reach stage 3: what createFallbackIntent builds and what
\* the unvalidated answer of the classification call may hold
ContextIntents ==
    { MkIntent(c, d, <<>>, <<>>, <<>>, "general", r, "low") :
        c \in {<<>>, <<"General">>, <<"Indonesia", "English">>},
        d \in {"linguistics", "literature", "cultural_studies", "philosophy"},
        r \in BOOLEAN }
    \cup { WithComparison(MkIntent(<<"Indonesia">>, d, <<>>, <<>>, <<>>, "general", FALSE, "high"), v) :
             d \in {"linguistics", "cultural_studies"},
             v \in {StrOf("no"), StrOf("false"), StrOf(""), JNum(1), JNum(0), JNull} }

InitContext ==
    /\ callIn \in {[pc |-> "context", docs |-> ds, intent |-> i] :
                     ds \in ContextDocLists, i \in ContextIntents}
    /\ callOut = Idle
    /\ store = HUMANITIES_KNOWLEDGE_BASE
    /\ loadIn = Idle
    /\ op = Idle
    /\ scoreIn = Idle
    /\ scoreOut = Idle
    /\ parseIn = <<>>
    /\ parseOut = Idle
    /\ retrIn = Idle
    /\ retrOut = Idle
    /\ PipeIdle
    /\ route = Idle

AssembleCall ==
    /\ callIn # Idle
    /\ callIn.pc = "context"
    /\ callOut = Idle
    /\ \E text \in {assembleInterpretiveContext(callIn.docs, callIn.intent)} :
          callOut' = [pc |-> "assembled", text |-> text]
    /\ UNCHANGED <<callIn, store, loadIn, op, scoreIn, scoreOut, parseIn, parseOut, retrIn, retrOut,
                   pipeVars, route>>

SpecContext == InitContext /\ [][AssembleCall]_vars

\* the text holds the piece
Holds(text, piece) == \E k \in 1..Len(text) : text[k] = piece

\* the positions of the piece in the text from position k on, in order
PositionsFrom(text, piece, k) ==
    LET at == {j \in k..Len(text) : text[j] = piece}
    IN [n \in 1..Cardinality(at) |-> CHOOSE j \in at : Cardinality({m \in at : m < j}) = n - 1]

\* C24: assembleInterpretiveContext returns the no-grounding message, with
\* no header, no reference block and no epistemic block, exactly when the
\* document list is empty; otherwise the text is the header, then one
\* reference block per document in input order numbered from 1, then the
\* epistemic reminders.
C24_ContextShape ==
    callOut # Idle =>
        \E text \in {callOut.text} :
        \E refs \in {PositionsFrom(text, REFERENCE, 1)} :
        \E n \in {Len(callIn.docs)} :
           /\ Holds(text, NO_REFERENCES) <=> n = 0
           /\ n = 0 => /\ text = getNoDocumentsMessage(callIn.intent)
                       /\ ~Holds(text, HEADLINE)
                       /\ refs = <<>>
                       /\ ~Holds(text, GUIDELINES)
           /\ n > 0 => /\ Len(refs) = n
                       /\ PositionsFrom(text, HEADLINE, 1) = <<3>>
                       /\ text[1] = RULE
                       /\ 3 < refs[1]
                       /\ \A k \in 1..n :
                             /\ text[refs[k] + 1] = ToString(k)
                             /\ \E e \in {IF k < n THEN refs[k + 1] ELSE Len(text)} :
                                \E t \in refs[k]..(e - 1) :
                                   /\ text[t] = "text of"
                                   /\ text[t + 1] = callIn.docs[k].id
                                   /\ PositionsFrom(text, "text of", refs[k]) [1] = t
                       /\ Len(PositionsFrom(text, "text of", 1)) = n
                       /\ \E g \in {PositionsFrom(text, GUIDELINES, 1)} :
                             /\ Len(g) = 1
                             /\ g[1] > refs[n]
                             /\ Holds(Slice(text, g[1], Len(text)), PERSPECTIVES)
                             /\ text[Len(text)] = RULE

\* three documents were assembled
C24_Witness ==
    /\ callOut # Idle
    /\ Len(callIn.docs) = MaxContextDocs
    /\ Holds(callOut.text, REFERENCE)

\* C25: the reminder against hierarchical judgments is in the epistemic
\* reminders exactly when intent.requires_comparison is true, the reminder
\* about tendencies exactly when the primary discipline is linguistics, the
\* reminder about dynamic and diverse practices exactly when it is
\* cultural_studies, and the reminders about perspectives and about
\* variation within cultures always.
C25_Reminders ==
    callOut # Idle /\ Len(callIn.docs) > 0 =>
        \E text \in {callOut.text} :
           /\ Holds(text, AVOID_HIERARCHY)
                 <=> Prop(callIn.intent, "requires_comparison") = JBool(TRUE)
           /\ Holds(text, TENDENCIES)
                 <=> Prop(callIn.intent, "primary_discipline") = StrOf("linguistics")
           /\ Holds(text, DYNAMIC_DIVERSE)
                 <=> Prop(callIn.intent, "primary_discipline") = StrOf("cultural_studies")
           /\ Holds(text, PERSPECTIVES)
           /\ Holds(text, VARIATION)

\* what holds of the comparison reminder: it follows the truthiness of
\* requires_comparison
C25_RemindersOfTruthy ==
    callOut # Idle /\ Len(callIn.docs) > 0 =>
        \E text \in {callOut.text} :
           /\ Holds(text, AVOID_HIERARCHY) <=> Truthy(Prop(callIn.intent, "requires_comparison"))
           /\ Holds(text, TENDENCIES)
                 <=> Prop(callIn.intent, "primary_discipline") = StrOf("linguistics")
           /\ Holds(text, DYNAMIC_DIVERSE)
                 <=> Prop(callIn.intent, "primary_discipline") = StrOf("cultural_studies")
           /\ Holds(text, PERSPECTIVES)
           /\ Holds(text, VARIATION)

\* ------------------------------------------------------------------------
\* createFallbackIntent applied to questions with and without comparison
\* words
\* ------------------------------------------------------------------------
\* most words in a question
MaxQuestionWords == 3

FallbackWords ==
    {"Apa", "beda", "berbeda", "different", "Compare", "Indonesian", "English?", "Japanese",
     "polite", "novel", ""}

FallbackQuestions == UNION {[1..n -> FallbackWords] : n \in 1..MaxQuestionWords}

InitFallback ==
    /\ callIn \in {[pc |-> "fallback", question |-> q] : q \in FallbackQuestions}
    /\ callOut = Idle
    /\ store = HUMANITIES_KNOWLEDGE_BASE
    /\ loadIn = Idle
    /\ op = Idle
    /\ scoreIn = Idle
    /\ scoreOut = Idle
    /\ parseIn = <<>>
    /\ parseOut = Idle
    /\ retrIn = Idle
    /\ retrOut = Idle
    /\ PipeIdle
    /\ route = Idle

FallbackCall ==
    /\ callIn # Idle
    /\ callIn.pc = "fallback"
    /\ callOut = Idle
    /\ \E h \in {createFallbackIntent(callIn.question)} :
          callOut' = [pc |-> "intent", intent |-> h]
    /\ UNCHANGED <<callIn, store, loadIn, op, scoreIn, scoreOut, parseIn, parseOut, retrIn, retrOut,
                   pipeVars, route>>

SpecFallback == InitFallback /\ [][FallbackCall]_vars

\* a word of the question holds beda, differ or compare, in any case
HasComparisonWord(question) ==
    \E k \in 1..Len(question) :
        question[k] \in {"beda", "berbeda", "different", "Compare"}

\* the cultures whose keywords a word of the question holds
CulturesNamed(question) ==
    {c \in {"Indonesia", "English", "Japanese"} :
        \E k \in 1..Len(question) :
            \/ c = "Indonesia" /\ question[k] = "Indonesian"
            \/ c = "English" /\ question[k] = "English?"
            \/ c = "Japanese" /\ question[k] = "Japanese"}

\* C29: on the fallback path requires_comparison is true exactly when more
\* than one culture was detected or the question contains one of the
\* comparison substrings (beda, differ, compare); query_type is comparative
\* exactly when requires_comparison is true; analysis_confidence is always
\* low.
C29_FallbackComparison ==
    callOut # Idle =>
        \E h \in {callOut.intent} :
        \E comparing \in {Cardinality(CulturesNamed(callIn.question)) > 1
                          \/ HasComparisonWord(callIn.question)} :
           /\ Prop(h, "requires_comparison") = JBool(comparing)
           /\ Prop(h, "query_type") =
                 StrOf(IF comparing THEN "comparative" ELSE "cultural_explanation")
           /\ Prop(h, "analysis_confidence") = StrOf("low")
           /\ Len(Prop(h, "cultures_involved").a) = Max(1, Cardinality(CulturesNamed(callIn.question)))

\* a question that names one culture and holds beda inside a longer word got
\* a comparative intent
C29_Witness ==
    /\ callOut # Idle
    /\ Cardinality(CulturesNamed(callIn.question)) = 1
    /\ \E k \in 1..Len(callIn.question) : callIn.question[k] = "berbeda"
    /\ \A k \in 1..Len(callIn.question) : callIn.question[k] \in {"berbeda", "Indonesian", "Apa"}
    /\ Prop(callOut.intent, "requires_comparison") = JBool(TRUE)
    /\ Prop(callOut.intent, "cultures_involved") = StrArr(<<"Indonesia">>)

=============================================================================
